---------------------------- MODULE Spec2Model ----------------------------
(***************************************************************************)
(* ScriptWeaver: the validation engine (src/src/validation.py), the        *)
(* segmenter / heading registry / notation transpiler                      *)
(* (src/src/content_processor.py) and the block classifier                 *)
(* (src/src/html_generator.py) as state machines.                          *)
(*                                                                         *)
(* Text is a sequence of characters, each a one-character string.  TLA+    *)
(* string literals are ASCII only, so the non-ASCII glyphs the patterns    *)
(* mention are written as their code points: "U3010" is the character      *)
(* U+3010, and so on.  A code-point name is ONE character of the text.     *)
(***************************************************************************)
EXTENDS Integers, Sequences, FiniteSets, TLC

VARIABLES
    results,       \* ValidationReport.results
    summary,       \* ValidationReport.summary
    content,       \* the document text handed to validate_document / split_paragraphs
    validators,    \* ValidationEngine.validators (names, in registration order)
    pc,            \* position of the running operation
    line_number,   \* validate_document: the enumerate(lines, 1) counter
    vidx,          \* validate_line: index of the validator being run
    line_results,  \* validate_line: its local `results` list
    calls,         \* log of the validator.validate calls: what each call did
    paragraphs,    \* convert: the blocks split_paragraphs returned
    headings,      \* convert: the headings collect_headings returned
    kinds,         \* _process_paragraphs: the branch taken for each block
    rendered,      \* _process_paragraphs: the element emitted for each block
    toc,           \* _generate_toc: the entries of the table of contents
    config,        \* the ValidationConfig the validators were built with
    coc_text,      \* the prose given to process_coc_elements
    coc_html,      \* what process_coc_elements returned for coc_text
    coc_html_again, \* what process_coc_elements returned for coc_html
    converter,     \* the ScriptConverter: its config and its validation_engine
    outcome,       \* what the last call on the ScriptConverter did
    reports        \* the reports the validate_document calls returned, oldest first

reportVars == <<results, summary>>
engineLocals == <<config, validators, line_number, vidx, line_results, calls>>
engineVars == <<config, content, validators, pc, line_number, vidx, line_results, calls>>
pipelineVars == <<paragraphs, headings, kinds, rendered, toc>>
cocVars == <<coc_text, coc_html, coc_html_again>>
callerVars == <<converter, outcome, reports>>

\* a component that is not running: its variables at rest
ReportUnused == results = <<>> /\ summary = [l \in {"critical", "warning", "info", "suggestion"} |-> 0]
\* ValidationConfig(): the defaults of the fields the validators read
DefaultConfig == [strict_mode |-> FALSE, custom_skills |-> <<>>]
EngineUnused ==
    /\ config = DefaultConfig
    /\ validators = <<>> /\ line_number = 0 /\ vidx = 0 /\ line_results = <<>> /\ calls = <<>>
PipelineUnused ==
    paragraphs = <<>> /\ headings = <<>> /\ kinds = <<>> /\ rendered = <<>> /\ toc = <<>>
CocUnused == coc_text = <<>> /\ coc_html = <<>> /\ coc_html_again = <<>>
\* self.validation_engine = None
NoEngine == [present |-> FALSE, config |-> DefaultConfig, validators |-> <<>>]
\* ScriptWeaverConfig(): the defaults of the fields the converter reads, and of
\* one field (include_toc) that is no validation setting
create_default ==
    [enable_validation |-> FALSE, strict_mode |-> FALSE, custom_skills |-> <<>>,
     include_toc |-> TRUE]
NoOutcome == [op |-> "none", raised |-> "none", written |-> FALSE]
CallerUnused ==
    /\ converter = [config |-> create_default, validation_engine |-> NoEngine]
    /\ outcome = NoOutcome
    /\ reports = <<>>

-----------------------------------------------------------------------------
(* Characters *)

NL == "\n"
Whitespace == {" ", "\t", NL}
Digits == {"0", "1", "2", "3", "4", "5", "6", "7", "8", "9"}

-----------------------------------------------------------------------------
(* str helpers, as Python computes them *)

\* s.startswith(p)
StartsWith(s, p) ==
    /\ Len(p) <= Len(s)
    /\ \A i \in 1..Len(p) : s[i] = p[i]

\* p occurs in s at position i
OccursAt(s, p, i) ==
    /\ i + Len(p) - 1 <= Len(s)
    /\ \A k \in 1..Len(p) : s[i + k - 1] = p[k]

\* p in s
Contains(s, p) == \E i \in 1..(Len(s) + 1) : OccursAt(s, p, i)

\* number of leading characters of s that are in cs
RECURSIVE LeadCount(_, _)
LeadCount(s, cs) ==
    IF s = <<>> \/ s[1] \notin cs THEN 0 ELSE 1 + LeadCount(Tail(s), cs)

\* number of trailing characters of s that are in cs
RECURSIVE TrailCount(_, _)
TrailCount(s, cs) ==
    IF s = <<>> \/ s[Len(s)] \notin cs THEN 0
    ELSE 1 + TrailCount(SubSeq(s, 1, Len(s) - 1), cs)

\* s.lstrip(cs)
LStrip(s, cs) == SubSeq(s, LeadCount(s, cs) + 1, Len(s))

\* s.rstrip(cs)
RStrip(s, cs) == SubSeq(s, 1, Len(s) - TrailCount(s, cs))

\* s.strip(): whitespace off both ends
Strip(s) == RStrip(LStrip(s, Whitespace), Whitespace)

\* s.split(sep), sep non-empty: left to right, non-overlapping
RECURSIVE SplitFrom(_, _, _, _)
SplitFrom(s, sep, i, cur) ==
    IF i > Len(s) THEN <<cur>>
    ELSE IF OccursAt(s, sep, i)
         THEN <<cur>> \o SplitFrom(s, sep, i + Len(sep), <<>>)
         ELSE SplitFrom(s, sep, i + 1, Append(cur, s[i]))

Split(s, sep) == SplitFrom(s, sep, 1, <<>>)

\* sep.join(parts)
RECURSIVE Join(_, _)
Join(parts, sep) ==
    IF parts = <<>> THEN <<>>
    ELSE IF Len(parts) = 1 THEN parts[1]
    ELSE parts[1] \o sep \o Join(Tail(parts), sep)

\* the concatenation of a sequence of sequences
RECURSIVE Concat(_)
Concat(parts) == IF parts = <<>> THEN <<>> ELSE parts[1] \o Concat(Tail(parts))

\* all sequences over S of length 0..n
RECURSIVE SeqsUpTo(_, _)
SeqsUpTo(S, n) ==
    IF n = 0 THEN {<<>>}
    ELSE LET shorter == SeqsUpTo(S, n - 1)
         IN  shorter \cup {Append(q, x) : q \in {r \in shorter : Len(r) = n - 1}, x \in S}

-----------------------------------------------------------------------------
(* ValidationLevel, ValidationResult, ValidationReport *)

CRITICAL == "critical"
WARNING == "warning"
INFO == "info"
SUGGESTION == "suggestion"
Levels == {CRITICAL, WARNING, INFO, SUGGESTION}

NoLine == 0     \* line_number = None

ValidationResult(level, message, ln, code) ==
    [level |-> level, message |-> message, line_number |-> ln, code |-> code]

\* ValidationReport.__init__
NewResults == <<>>
NewSummary == [l \in Levels |-> 0]

\* add_result that counts every level but SUGGESTION
AddToUncounted(rep, result) ==
    [results |-> Append(rep.results, result),
     summary |-> IF result.level = SUGGESTION THEN rep.summary
                 ELSE [rep.summary EXCEPT ![result.level] = @ + 1]]

\* ValidationReport.add_result, on the pair (results, summary)
AddTo(rep, result) ==
    [results |-> Append(rep.results, result),
     summary |-> [rep.summary EXCEPT ![result.level] = @ + 1]]

\* add_result for each result of rs, in order
RECURSIVE AddAll(_, _)
AddAll(rep, rs) ==
    IF rs = <<>> THEN rep ELSE AddAll(AddTo(rep, rs[1]), Tail(rs))

\* has_errors that also counts warnings
has_errors_or_warnings == summary[CRITICAL] + summary[WARNING] > 0

\* ValidationReport.has_errors
has_errors == summary[CRITICAL] > 0

\* ValidationReport.get_results_by_level
get_results_by_level(level) == SelectSeq(results, LAMBDA r : r.level = level)

-----------------------------------------------------------------------------
(* Numbered-heading patterns *)

\* number of digits of s from position i on
RECURSIVE DigitRun(_, _)
DigitRun(s, i) ==
    IF i > Len(s) \/ s[i] \notin Digits THEN 0 ELSE 1 + DigitRun(s, i + 1)

\* ^\d+(-\d+){k-1} from position i: the position after the match, 0 when none
RECURSIVE NumGroups(_, _, _)
NumGroups(s, i, k) ==
    LET n == DigitRun(s, i)
    IN  IF n = 0 THEN 0
        ELSE IF k = 1 THEN i + n
        ELSE IF i + n <= Len(s) /\ s[i + n] = "-" THEN NumGroups(s, i + n + 1, k - 1)
        ELSE 0

\* re.match(r'^\d+(-\d+){k-1}\.', s)
MatchNumDot(s, k) ==
    LET e == NumGroups(s, 1, k)
    IN  e > 0 /\ e <= Len(s) /\ s[e] = "."

-----------------------------------------------------------------------------
(* ValidationEngine *)

VALIDATOR_ERROR == "VALIDATOR_ERROR"
HEADING_HIERARCHY == "HEADING_HIERARCHY"

\* the except branch of validate_line: the synthetic result
error_result(name, ln) ==
    ValidationResult(CRITICAL, <<"validator_error", name, 0, 0>>, ln, VALIDATOR_ERROR)

\* _validate_document_structure, first loop: the (level, line_number) pairs
RECURSIVE heading_levels(_, _)
heading_levels(lines, n) ==
    IF n > Len(lines) THEN <<>>
    ELSE LET line == Strip(lines[n])
             rest == heading_levels(lines, n + 1)
         IN  IF StartsWith(line, <<"#">>)
             THEN <<[level |-> LeadCount(line, {"#"}), line_number |-> n]>> \o rest
             ELSE IF MatchNumDot(line, 1)
             THEN <<[level |-> IF MatchNumDot(line, 2) THEN 2
                               ELSE IF MatchNumDot(line, 3) THEN 3
                               ELSE 1,
                     line_number |-> n]>> \o rest
             ELSE rest

\* _validate_document_structure, second loop
RECURSIVE hierarchy_results(_, _)
hierarchy_results(hl, prev_level) ==
    IF hl = <<>> THEN <<>>
    ELSE LET h == hl[1]
             rest == hierarchy_results(Tail(hl), h.level)
         IN  IF h.level > prev_level + 1
             THEN <<ValidationResult(WARNING, <<"hierarchy", "", prev_level, h.level>>,
                                     h.line_number, HEADING_HIERARCHY)>> \o rest
             ELSE rest

validate_document_structure(text) ==
    hierarchy_results(heading_levels(Split(text, <<NL>>), 1), 0)

-----------------------------------------------------------------------------
(* Bounds and sampled inputs of the validation specifications *)

MaxResults == 3        \* add_result calls on one report
MaxLines == 2          \* lines of a document given to validate_document
MaxValidators == 2     \* register_validator calls on one engine
MaxCalls == 4          \* validator.validate calls of one validate_document run

\* what add_result is called with
SampleResults ==
    {ValidationResult(l, <<"check", "", 0, 0>>, ln, "CHECK") : l \in Levels, ln \in {NoLine, 1}}

\* lines of the documents validated: blank, hash headings of level 1 and 3,
\* a numbered heading, prose
EngineLines ==
    {<<>>, <<"#", "a">>, <<"#", "#", "#", "a">>, <<"1", ".", "a">>}

EngineDocs ==
    {Join(ls, <<NL>>) : ls \in (SeqsUpTo(EngineLines, MaxLines) \ {<<>>})}

ValidatorNames == {"SkillValidator", "HeadingValidator"}

\* what a BaseValidator.validate call may return (when it does not raise)
Returns(name, ln) ==
    {<<>>, <<ValidationResult(WARNING, <<"check", name, 0, 0>>, ln, "CHECK")>>}

-----------------------------------------------------------------------------
(* ValidationReport alone: any sequence of add_result calls *)

InitReport ==
    /\ results = NewResults
    /\ summary = NewSummary
    /\ content = <<>>
    /\ config = DefaultConfig
    /\ validators = <<>>
    /\ pc = "report"
    /\ line_number = 0
    /\ vidx = 0
    /\ line_results = <<>>
    /\ calls = <<>>
    /\ PipelineUnused
    /\ CocUnused
    /\ CallerUnused

add_result(result) ==
    /\ pc = "report"
    /\ Len(results) < MaxResults
    /\ LET rep == AddTo([results |-> results, summary |-> summary], result)
       IN  /\ results' = rep.results
           /\ summary' = rep.summary
    /\ UNCHANGED engineVars
    /\ UNCHANGED <<pipelineVars, cocVars, callerVars>>

NextReport == \E result \in SampleResults : add_result(result)

-----------------------------------------------------------------------------
(* ValidationEngine: register_validator, validate_document step by step *)

InitEngine ==
    /\ results = NewResults
    /\ summary = NewSummary
    /\ content \in EngineDocs
    /\ config = DefaultConfig
    /\ validators = <<>>
    /\ pc = "idle"
    /\ line_number = 0
    /\ vidx = 0
    /\ line_results = <<>>
    /\ calls = <<>>
    /\ PipelineUnused
    /\ CocUnused
    /\ CallerUnused

\* the lines read back from the pipeline's block list instead of from content
lines_of_blocks == Split(Join(paragraphs, <<NL>>), <<NL>>)

\* validate_document: lines = content.split('\n')
lines == Split(content, <<NL>>)

register_validator(name) ==
    /\ pc = "idle"
    /\ Len(validators) < MaxValidators
    /\ validators' = Append(validators, name)
    /\ UNCHANGED <<results, summary, config, content, pc, line_number, vidx, line_results, calls>>
    /\ UNCHANGED <<pipelineVars, cocVars, callerVars>>

\* validate_document up to the first validate_line call
validate_document ==
    /\ pc = "idle"
    /\ Len(lines) * Len(validators) <= MaxCalls
    /\ results' = NewResults
    /\ summary' = NewSummary
    /\ line_number' = 1
    /\ vidx' = 1
    /\ line_results' = <<>>
    /\ calls' = <<>>
    /\ pc' = "line"
    /\ UNCHANGED <<config, content, validators>>
    /\ UNCHANGED <<pipelineVars, cocVars, callerVars>>

\* validate_line: validator.validate returns, results.extend
validator_returns ==
    /\ pc = "line"
    /\ vidx <= Len(validators)
    /\ \E rs \in Returns(validators[vidx], line_number) :
          /\ line_results' = line_results \o rs
          /\ calls' = Append(calls, [line_number |-> line_number, vidx |-> vidx,
                                     name |-> validators[vidx], raised |-> FALSE,
                                     returned |-> rs])
    /\ vidx' = vidx + 1
    /\ UNCHANGED <<results, summary, config, content, validators, pc, line_number>>
    /\ UNCHANGED <<pipelineVars, cocVars, callerVars>>

\* validate_line with the try around the whole loop: a raise ends the line
validator_raises_ends_line ==
    /\ pc = "line"
    /\ vidx <= Len(validators)
    /\ line_results' = Append(line_results, error_result(validators[vidx], line_number))
    /\ calls' = Append(calls, [line_number |-> line_number, vidx |-> vidx,
                               name |-> validators[vidx], raised |-> TRUE,
                               returned |-> <<>>])
    /\ vidx' = Len(validators) + 1
    /\ UNCHANGED <<results, summary, config, content, validators, pc, line_number>>
    /\ UNCHANGED <<pipelineVars, cocVars, callerVars>>

\* validate_line: validator.validate raises, the except branch
validator_raises ==
    /\ pc = "line"
    /\ vidx <= Len(validators)
    /\ line_results' = Append(line_results, error_result(validators[vidx], line_number))
    /\ calls' = Append(calls, [line_number |-> line_number, vidx |-> vidx,
                               name |-> validators[vidx], raised |-> TRUE,
                               returned |-> <<>>])
    /\ vidx' = vidx + 1
    /\ UNCHANGED <<results, summary, config, content, validators, pc, line_number>>
    /\ UNCHANGED <<pipelineVars, cocVars, callerVars>>

\* validate_line returns; validate_document adds its results and goes to the next line
line_done ==
    /\ pc = "line"
    /\ vidx > Len(validators)
    /\ LET rep == AddAll([results |-> results, summary |-> summary], line_results)
       IN  /\ results' = rep.results
           /\ summary' = rep.summary
    /\ line_results' = <<>>
    /\ vidx' = 1
    /\ IF line_number < Len(lines)
       THEN line_number' = line_number + 1 /\ pc' = "line"
       ELSE line_number' = line_number /\ pc' = "structure"
    /\ UNCHANGED <<config, content, validators, calls>>
    /\ UNCHANGED <<pipelineVars, cocVars, callerVars>>

\* validate_document: the document phase, and the return
document_phase ==
    /\ pc = "structure"
    /\ LET rep == AddAll([results |-> results, summary |-> summary],
                         validate_document_structure(content))
       IN  /\ results' = rep.results
           /\ summary' = rep.summary
    /\ pc' = "done"
    /\ UNCHANGED <<config, content, validators, line_number, vidx, line_results, calls>>
    /\ UNCHANGED <<pipelineVars, cocVars, callerVars>>

NextEngine ==
    \/ \E name \in ValidatorNames : register_validator(name)
    \/ validate_document
    \/ validator_returns
    \/ validator_raises
    \/ line_done
    \/ document_phase

-----------------------------------------------------------------------------
vars == <<results, summary, content, validators, pc, line_number, vidx, line_results, calls,
         paragraphs, headings, kinds, rendered, toc, config, coc_text, coc_html,
         coc_html_again, converter, outcome, reports>>

SpecReport == InitReport /\ [][NextReport]_vars
SpecEngine == InitEngine /\ [][NextEngine]_vars

-----------------------------------------------------------------------------
(* Claims on the validation report and engine *)

\* number of entries of results having level l
Tally(l) == Cardinality({i \in 1..Len(results) : results[i].level = l})

\* C1: after any sequence of add_result calls, for each of the four
\* severities summary[severity] is the number of entries of results that have
\* that level.
C1_SummaryIsTally == \A l \in Levels : summary[l] = Tally(l)

\* C1 witness: a report holding two warnings and one critical result
C1_Witness ==
    /\ pc = "report"
    /\ Len(results) = 3
    /\ Tally(WARNING) = 2
    /\ Tally(CRITICAL) = 1

\* C2: has_errors() is true exactly when a CRITICAL result has been added
\* (false on a new report, false while only other levels are added), and once
\* true it stays true under every further add_result.
C2_HasErrors ==
    /\ [](has_errors <=> \E i \in 1..Len(results) : results[i].level = CRITICAL)
    /\ [][has_errors => has_errors']_vars

\* C2 witness: a critical result added after a non-critical one, and another
\* result added after it
C2_Witness ==
    /\ pc = "report"
    /\ Len(results) = 3
    /\ results[1].level = WARNING
    /\ results[2].level = CRITICAL
    /\ results[3].level = INFO
    /\ has_errors

\* what the line phase owes the report for one validate call
Owed(c) == IF c.raised THEN <<error_result(c.name, c.line_number)>> ELSE c.returned

RECURSIVE OwedAll(_)
OwedAll(cs) == IF cs = <<>> THEN <<>> ELSE Owed(cs[1]) \o OwedAll(Tail(cs))

\* the results of the report that are VALIDATOR_ERROR for checker name at line ln
ErrorsFor(name, ln) ==
    {i \in 1..Len(results) :
        /\ results[i].code = VALIDATOR_ERROR
        /\ results[i].level = CRITICAL
        /\ results[i].message[2] = name
        /\ results[i].line_number = ln}

\* the calls in which checker name raised at line ln
RaisesOf(name, ln) ==
    {k \in 1..Len(calls) :
        calls[k].raised /\ calls[k].name = name /\ calls[k].line_number = ln}

\* C3: when checkers raise, validate_document still runs to its return; the
\* report has exactly one CRITICAL VALIDATOR_ERROR result naming the checker
\* and the line for each (checker, line) failure, every registered checker was
\* run on every line, and what the other calls returned is in the report, in
\* call order, followed by the document phase's results.
C3_RaiseIsRecorded ==
    /\ pc = "line" => line_number \in 1..Len(lines) /\ vidx \in 1..(Len(validators) + 1)
    /\ pc = "done" =>
          /\ Len(calls) = Len(lines) * Len(validators)
          /\ \A n \in 1..Len(lines) : \A j \in 1..Len(validators) :
                LET c == calls[(n - 1) * Len(validators) + j]
                IN  c.line_number = n /\ c.vidx = j /\ c.name = validators[j]
          /\ \A k \in 1..Len(calls) :
                calls[k].raised =>
                   Cardinality(ErrorsFor(calls[k].name, calls[k].line_number))
                      = Cardinality(RaisesOf(calls[k].name, calls[k].line_number))
          /\ results = OwedAll(calls) \o validate_document_structure(content)

\* C3 witness: the first checker raised on line 1, the second checker returned
\* a result on line 1 and a checker returned a result on line 2
C3_Witness ==
    /\ pc = "done"
    /\ Len(validators) = 2
    /\ Len(lines) = 2
    /\ calls[1].raised
    /\ ~calls[2].raised /\ calls[2].returned # <<>>
    /\ ~calls[3].raised /\ calls[3].returned # <<>>
    /\ \E i \in 1..Len(results) : results[i].code = VALIDATOR_ERROR

-----------------------------------------------------------------------------
(* ContentProcessor: patterns *)

\* the non-ASCII glyphs of the patterns, by code point
DefinitionMarker == "U25C6"
BulletMarker == "U30FB"
QuoteOpen == "U300C"
QuoteClose == "U300D"
Kanji == "U6982"

LowerLetters == {"a", "b", "c", "d", "h", "n", "p", "s", "x"}
UpperLetters == {"A", "D", "H", "N", "P", "S"}
AsciiAlnum == LowerLetters \cup UpperLetters \cup Digits
\* \w: letters of any script, digits, underscore
WordChars == AsciiAlnum \cup {"_", Kanji}

\* str.lower, one character
LowerChar(c) ==
    CASE c = "A" -> "a" [] c = "D" -> "d" [] c = "H" -> "h"
      [] c = "N" -> "n" [] c = "P" -> "p" [] c = "S" -> "s"
      [] OTHER -> c

Lower(s) == [i \in 1..Len(s) |-> LowerChar(s[i])]

\* section_divider_pattern.match(line): ^(===+|---+)
section_divider_match(line) ==
    \/ StartsWith(line, <<"=", "=", "=">>)
    \/ StartsWith(line, <<"-", "-", "-">>)

\* ^(\d+(-\d+){k-1})\.\s+(.+) : patterns 1, 3, 5
PatternSpaced(s, k) ==
    LET e == NumGroups(s, 1, k)
    IN  /\ e > 0
        /\ e <= Len(s)
        /\ s[e] = "."
        /\ \E j \in (e + 2)..Len(s) :
              /\ \A m \in (e + 1)..(j - 1) : s[m] \in Whitespace
              /\ s[j] # NL

\* ^(\d+(-\d+){k-1})\.(.+) : patterns 2, 4, 6
PatternTight(s, k) ==
    LET e == NumGroups(s, 1, k)
    IN  /\ e > 0
        /\ e + 1 <= Len(s)
        /\ s[e] = "."
        /\ s[e + 1] # NL

\* numbered_heading_patterns[i - 1].match(s), i the 1-based index
numbered_heading_pattern(i, s) ==
    IF i % 2 = 1 THEN PatternSpaced(s, (i + 1) \div 2) ELSE PatternTight(s, i \div 2)

is_numbered_heading(s) == \E i \in 1..6 : numbered_heading_pattern(i, s)

determine_heading_level(s) ==
    IF numbered_heading_pattern(1, s) \/ numbered_heading_pattern(2, s) THEN 1
    ELSE IF numbered_heading_pattern(3, s) \/ numbered_heading_pattern(4, s) THEN 2
    ELSE IF numbered_heading_pattern(5, s) \/ numbered_heading_pattern(6, s) THEN 3
    ELSE 2

-----------------------------------------------------------------------------
(* ContentProcessor: the segmenter *)

\* the flush of current_group
Flushed(result, current_group) ==
    IF current_group # <<>> THEN Append(result, Join(current_group, <<NL>>)) ELSE result

\* the loop of _separate_structural_elements without the flush after it
RECURSIVE SeparateLoopNoFlush(_, _, _, _)
SeparateLoopNoFlush(ls, i, result, current_group) ==
    IF i > Len(ls) THEN result
    ELSE LET line == Strip(ls[i])
         IN  IF line = <<>> THEN SeparateLoopNoFlush(ls, i + 1, result, current_group)
             ELSE IF section_divider_match(line) \/ is_numbered_heading(line)
             THEN SeparateLoopNoFlush(ls, i + 1,
                                      Append(Flushed(result, current_group), line), <<>>)
             ELSE SeparateLoopNoFlush(ls, i + 1, result, Append(current_group, line))

\* _separate_structural_elements that forgets the group left after the loop
separate_without_last_group(paragraph) ==
    SeparateLoopNoFlush(Split(paragraph, <<NL>>), 1, <<>>, <<>>)

\* the loop of _separate_structural_elements and the flush after it
RECURSIVE SeparateLoop(_, _, _, _)
SeparateLoop(ls, i, result, current_group) ==
    IF i > Len(ls) THEN Flushed(result, current_group)
    ELSE LET line == Strip(ls[i])
         IN  IF line = <<>> THEN SeparateLoop(ls, i + 1, result, current_group)
             ELSE IF section_divider_match(line) \/ is_numbered_heading(line)
             THEN SeparateLoop(ls, i + 1, Append(Flushed(result, current_group), line), <<>>)
             ELSE SeparateLoop(ls, i + 1, result, Append(current_group, line))

separate_structural_elements(paragraph) ==
    SeparateLoop(Split(paragraph, <<NL>>), 1, <<>>, <<>>)

\* the loop of split_paragraphs over raw_paragraphs
RECURSIVE SplitLoop(_, _)
SplitLoop(raw_paragraphs, i) ==
    IF i > Len(raw_paragraphs) THEN <<>>
    ELSE LET paragraph == Strip(raw_paragraphs[i])
         IN  (IF paragraph = <<>> THEN <<>> ELSE separate_structural_elements(paragraph))
                \o SplitLoop(raw_paragraphs, i + 1)

split_paragraphs(text) ==
    SelectSeq(SplitLoop(Split(text, <<NL, NL>>), 1), LAMBDA p : Strip(p) # <<>>)

-----------------------------------------------------------------------------
(* ContentProcessor: the heading registry *)

\* re.sub(r'[-\s]+', '-', t)
RECURSIVE CollapseRuns(_)
CollapseRuns(t) ==
    IF t = <<>> THEN <<>>
    ELSE IF t[1] \in Whitespace \cup {"-"}
    THEN <<"-">> \o CollapseRuns(LStrip(t, Whitespace \cup {"-"}))
    ELSE <<t[1]>> \o CollapseRuns(Tail(t))

\* the first three statements of _generate_heading_id
CleanHeading(text) ==
    LET kept == SelectSeq(text, LAMBDA c : c \in WordChars \cup Whitespace \cup {"-"})
        collapsed == CollapseRuns(kept)
    IN  Lower(RStrip(LStrip(collapsed, {"-"}), {"-"}))

\* length of the match of ^(\d+(?:-\d+)*) in t, which starts with a digit
RECURSIVE NumberPathLen(_, _)
NumberPathLen(t, i) ==
    LET n == DigitRun(t, i)
        e == i + n
    IN  IF e <= Len(t) /\ t[e] = "-" /\ DigitRun(t, e + 1) > 0
        THEN NumberPathLen(t, e + 1)
        ELSE e - 1

\* an identifier "heading-" + body, or "heading-" + md5(body).hexdigest()[:8]
HeadingId(hashed, body) == [hashed |-> hashed, body |-> body]

\* _generate_heading_id
generate_heading_id(text) ==
    LET t == CleanHeading(text)
    IN  IF t # <<>> /\ t[1] \in Digits
        THEN HeadingId(FALSE, SubSeq(t, 1, NumberPathLen(t, 1)))
        ELSE IF t = <<>> \/ \A i \in 1..Len(t) : t[i] \notin AsciiAlnum
        THEN HeadingId(TRUE, t)
        ELSE HeadingId(FALSE, t)

\* the heading collect_headings records for one paragraph, <<>> when none
heading_of(paragraph) ==
    IF StartsWith(paragraph, <<"#">>)
    THEN LET level == LeadCount(paragraph, {"#"})
             htext == Strip(SubSeq(paragraph, level + 1, Len(paragraph)))
         IN  <<[text |-> htext, level |-> level, id |-> generate_heading_id(htext),
                type |-> "hash"]>>
    ELSE IF is_numbered_heading(paragraph)
    THEN <<[text |-> Strip(paragraph), level |-> determine_heading_level(paragraph),
            id |-> generate_heading_id(paragraph), type |-> "numbered"]>>
    ELSE <<>>

RECURSIVE collect_headings(_)
collect_headings(ps) ==
    IF ps = <<>> THEN <<>> ELSE heading_of(ps[1]) \o collect_headings(Tail(ps))

-----------------------------------------------------------------------------
(* ContentProcessor: the block predicates *)

\* paragraph.strip().split('\n')
BlockLines(paragraph) == Split(Strip(paragraph), <<NL>>)

\* the lines of a line list that satisfy a test, as indices
PipeLines(ls) == {i \in 1..Len(ls) : Contains(ls[i], <<"|">>)}

is_table(paragraph) ==
    LET ls == BlockLines(paragraph)
        has_separator == \E i \in 1..Len(ls) : Contains(ls[i], <<"-", "-", "-">>)
    IN  IF Len(ls) < 2 THEN FALSE
        ELSE IF Cardinality(PipeLines(ls)) < 2 THEN FALSE
        ELSE has_separator \/ Cardinality(PipeLines(ls)) >= 2

is_section_divider(paragraph) ==
    LET ls == BlockLines(paragraph)
    IN  \E i \in 1..Len(ls) : section_divider_match(Strip(ls[i]))

is_definition_list(paragraph) ==
    LET ls == BlockLines(paragraph)
    IN  Cardinality({i \in 1..Len(ls) : StartsWith(Strip(ls[i]), <<DefinitionMarker>>)}) >= 2

is_bullet_list(paragraph) ==
    LET ls == BlockLines(paragraph)
    IN  Cardinality({i \in 1..Len(ls) : StartsWith(Strip(ls[i]), <<BulletMarker>>)}) >= 2

\* the attribute abbreviations of npc_status_pattern
NpcWords ==
    {<<"S", "T", "R">>, <<"C", "O", "N">>, <<"S", "I", "Z">>, <<"I", "N", "T">>,
     <<"P", "O", "W">>, <<"D", "E", "X">>, <<"H", "P">>}

\* npc_status_pattern.search(line): \(.*(?:STR|CON|SIZ|INT|POW|DEX|HP).*\)
npc_status_search(line) ==
    \E i \in 1..Len(line) : \E w \in NpcWords : \E j \in (i + 1)..Len(line) :
        /\ line[i] = "("
        /\ OccursAt(line, w, j)
        /\ \E k \in (j + Len(w))..Len(line) : line[k] = ")"

is_npc_status(paragraph) ==
    LET ls == BlockLines(paragraph)
    IN  \E i \in 1..Len(ls) : npc_status_search(ls[i])

has_dialogue(text) == Contains(text, <<QuoteOpen>>) /\ Contains(text, <<QuoteClose>>)

-----------------------------------------------------------------------------
(* ContentProcessor: the notation transpiler                                *)
(*                                                                          *)
(* In the transpiler's texts the literal SAN of san_pattern and the words   *)
(* of the markup the transpiler writes (span class=, coc-san, /span, the    *)
(* entity names) are one element each: no pattern can match a part of one.  *)

SkillOpen == "U3010"
SkillClose == "U3011"
ItemOpen == "U300E"
ItemClose == "U300F"

\* html.escape(c, quote=True) for one element
EscapeChar(c) ==
    CASE c = "&" -> <<"&", "amp", ";">>
      [] c = "<" -> <<"&", "lt", ";">>
      [] c = ">" -> <<"&", "gt", ";">>
      [] c = "\"" -> <<"&", "quot", ";">>
      [] c = "'" -> <<"&", "#", "x", "2", "7", ";">>
      [] OTHER -> <<c>>

\* _escape_html
RECURSIVE escape_html(_)
escape_html(t) == IF t = <<>> THEN <<>> ELSE EscapeChar(t[1]) \o escape_html(Tail(t))

\* <span class="cls">
SpanOpen(cls) == <<"<", "span class=", "\"", cls, "\"", ">">>
\* </span>
SpanClose == <<"<", "/span", ">">>

\* (?:[+\-]\d+)? from position i: the position after it
AfterModifier(t, i) ==
    IF i <= Len(t) /\ t[i] \in {"+", "-"} /\ DigitRun(t, i + 1) > 0
    THEN i + 1 + DigitRun(t, i + 1)
    ELSE i

\* san_pattern at position i: SANc?\d+/\d+(?:d\d+)?(?:[+\-]\d+)?
\* the position after the match, 0 when none
SanMatch(t, i) ==
    IF t[i] # "SAN" THEN 0
    ELSE LET a == IF i + 1 <= Len(t) /\ t[i + 1] = "c" THEN i + 2 ELSE i + 1
             b == a + DigitRun(t, a)
             e == b + 1 + DigitRun(t, b + 1)
             f == IF e <= Len(t) /\ t[e] = "d" /\ DigitRun(t, e + 1) > 0
                  THEN e + 1 + DigitRun(t, e + 1)
                  ELSE e
         IN  IF DigitRun(t, a) = 0 THEN 0
             ELSE IF b > Len(t) \/ t[b] # "/" THEN 0
             ELSE IF DigitRun(t, b + 1) = 0 THEN 0
             ELSE AfterModifier(t, f)

\* dice_pattern at position i: \d+[dD]\d+(?:[+\-]\d+)?
DiceMatch(t, i) ==
    LET a == i + DigitRun(t, i)
    IN  IF DigitRun(t, i) = 0 THEN 0
        ELSE IF a > Len(t) \/ t[a] \notin {"d", "D"} THEN 0
        ELSE IF DigitRun(t, a + 1) = 0 THEN 0
        ELSE AfterModifier(t, a + 1 + DigitRun(t, a + 1))

\* open [^close]+ close at position i
BracketMatch(t, i, open, close) ==
    IF t[i] # open THEN 0
    ELSE LET closes == {j \in (i + 1)..Len(t) : t[j] = close}
         IN  IF closes = {} THEN 0
             ELSE LET j == CHOOSE x \in closes : \A y \in closes : x <= y
                  IN  IF j = i + 1 THEN 0 ELSE j + 1

\* san_pattern.sub(r'<span class="coc-san">\1</span>', t), from position i: the text up
\* to the leftmost match, the match in its span, the rest likewise
RECURSIVE SanSub(_, _)
SanSub(t, i) ==
    LET starts == {j \in i..Len(t) : SanMatch(t, j) > 0}
    IN  IF starts = {} THEN SubSeq(t, i, Len(t))
        ELSE LET j == CHOOSE x \in starts : \A y \in starts : x <= y
                 e == SanMatch(t, j)
             IN  SubSeq(t, i, j - 1) \o SpanOpen("coc-san") \o SubSeq(t, j, e - 1) \o SpanClose
                     \o SanSub(t, e)

convert_san_notation(t) == SanSub(t, 1)

\* dice_pattern.sub(r'<span class="coc-dice">\1</span>', t), from position i
RECURSIVE DiceSub(_, _)
DiceSub(t, i) ==
    LET starts == {j \in i..Len(t) : DiceMatch(t, j) > 0}
    IN  IF starts = {} THEN SubSeq(t, i, Len(t))
        ELSE LET j == CHOOSE x \in starts : \A y \in starts : x <= y
                 e == DiceMatch(t, j)
             IN  SubSeq(t, i, j - 1) \o SpanOpen("coc-dice") \o SubSeq(t, j, e - 1) \o SpanClose
                     \o DiceSub(t, e)

convert_dice_notation(t) == DiceSub(t, 1)

\* skill_pattern.sub, from position i
RECURSIVE SkillSub(_, _)
SkillSub(t, i) ==
    LET starts == {j \in i..Len(t) : BracketMatch(t, j, SkillOpen, SkillClose) > 0}
    IN  IF starts = {} THEN SubSeq(t, i, Len(t))
        ELSE LET j == CHOOSE x \in starts : \A y \in starts : x <= y
                 e == BracketMatch(t, j, SkillOpen, SkillClose)
             IN  SubSeq(t, i, j - 1) \o SpanOpen("coc-skill") \o SubSeq(t, j, e - 1) \o SpanClose
                     \o SkillSub(t, e)

convert_skill_notation(t) == SkillSub(t, 1)

\* item_pattern.sub, from position i
RECURSIVE ItemSub(_, _)
ItemSub(t, i) ==
    LET starts == {j \in i..Len(t) : BracketMatch(t, j, ItemOpen, ItemClose) > 0}
    IN  IF starts = {} THEN SubSeq(t, i, Len(t))
        ELSE LET j == CHOOSE x \in starts : \A y \in starts : x <= y
                 e == BracketMatch(t, j, ItemOpen, ItemClose)
             IN  SubSeq(t, i, j - 1) \o SpanOpen("coc-item") \o SubSeq(t, j, e - 1) \o SpanClose
                     \o ItemSub(t, e)

convert_item_notation(t) == ItemSub(t, 1)

process_coc_elements(t) ==
    convert_item_notation(
        convert_skill_notation(
            convert_dice_notation(
                convert_san_notation(escape_html(t)))))

-----------------------------------------------------------------------------
(* HTMLGenerator._process_paragraphs: the branch taken for a block *)

\* the chain with the dialogue test before the table test
classify_dialogue_first(paragraph) ==
    IF StartsWith(paragraph, <<"#">>) THEN "hash_heading"
    ELSE IF is_numbered_heading(paragraph) THEN "numbered_heading"
    ELSE IF is_section_divider(paragraph) THEN "section_divider"
    ELSE IF has_dialogue(paragraph) THEN "dialogue"
    ELSE IF is_table(paragraph) THEN "table"
    ELSE IF is_definition_list(paragraph) THEN "definition_list"
    ELSE IF is_bullet_list(paragraph) THEN "bullet_list"
    ELSE IF is_npc_status(paragraph) THEN "npc_status"
    ELSE "paragraph"

classify(paragraph) ==
    IF StartsWith(paragraph, <<"#">>) THEN "hash_heading"
    ELSE IF is_numbered_heading(paragraph) THEN "numbered_heading"
    ELSE IF is_section_divider(paragraph) THEN "section_divider"
    ELSE IF is_table(paragraph) THEN "table"
    ELSE IF is_definition_list(paragraph) THEN "definition_list"
    ELSE IF is_bullet_list(paragraph) THEN "bullet_list"
    ELSE IF is_npc_status(paragraph) THEN "npc_status"
    ELSE IF has_dialogue(paragraph) THEN "dialogue"
    ELSE "paragraph"

-----------------------------------------------------------------------------
(* HTMLGenerator: the element emitted for a block                           *)

\* heading_ids = {heading['text']: heading['id'] for heading in headings}:
\* the identifier the mapping holds for a text, <<>> when the text is no key
heading_ids(hs, htext) ==
    LET at == {i \in 1..Len(hs) : hs[i].text = htext}
    IN  IF at = {} THEN <<>>
        ELSE <<hs[CHOOSE i \in at : \A j \in at : j <= i].id>>

\* _generate_toc: no table of contents without headings, else one entry per
\* heading: <li class="toc-level-{level}"><a href="#{id}">{text}</a></li>
generate_toc(hs) ==
    IF hs = <<>> THEN [present |-> FALSE, entries |-> <<>>]
    ELSE [present |-> TRUE,
          entries |-> [i \in 1..Len(hs) |->
                          [level |-> hs[i].level, href |-> hs[i].id,
                           body |-> escape_html(hs[i].text)]]]

\* _convert_heading that looks no identifier up
convert_heading_anonymous(paragraph, hs) ==
    LET original_level == LeadCount(paragraph, {"#"})
        level == IF original_level < 6 THEN original_level ELSE 6
        heading_text == Strip(SubSeq(paragraph, original_level + 1, Len(paragraph)))
    IN  [tag |-> "h", level |-> level, id |-> <<>>, body |-> escape_html(heading_text)]

\* _convert_heading: <h{level}{id}>{text}</h{level}>
convert_heading(paragraph, hs) ==
    LET original_level == LeadCount(paragraph, {"#"})
        level == IF original_level < 6 THEN original_level ELSE 6
        heading_text == Strip(SubSeq(paragraph, original_level + 1, Len(paragraph)))
    IN  [tag |-> "h", level |-> level,
         id |-> IF hs # <<>> THEN heading_ids(hs, heading_text) ELSE <<>>,
         body |-> escape_html(heading_text)]

\* _convert_numbered_heading with every numbered heading at level 1
convert_numbered_heading_flat(paragraph, hs) ==
    [tag |-> "h", level |-> 1,
     id |-> IF hs # <<>> THEN heading_ids(hs, Strip(paragraph)) ELSE <<>>,
     body |-> escape_html(paragraph)]

\* _convert_numbered_heading
convert_numbered_heading(paragraph, hs) ==
    LET level == IF MatchNumDot(paragraph, 1) THEN 1
                 ELSE IF MatchNumDot(paragraph, 2) THEN 2
                 ELSE IF MatchNumDot(paragraph, 3) THEN 3
                 ELSE 2
    IN  [tag |-> "h", level |-> level,
         id |-> IF hs # <<>> THEN heading_ids(hs, Strip(paragraph)) ELSE <<>>,
         body |-> escape_html(paragraph)]

\* [cell.strip() for cell in line.split('|') if cell.strip()]
row_cells(line) ==
    LET parts == Split(line, <<"|">>)
        stripped == [i \in 1..Len(parts) |-> Strip(parts[i])]
    IN  SelectSeq(stripped, LAMBDA cell : cell # <<>>)

\* the row of a table: each cell through process_coc_elements
table_row(line) ==
    LET cells == row_cells(line)
    IN  [i \in 1..Len(cells) |-> process_coc_elements(cells[i])]

\* _convert_table, the loop over the lines: header_lines and body_lines
RECURSIVE TableLoop(_, _, _, _, _)
TableLoop(ls, i, header_lines, body_lines, separator_found) ==
    IF i > Len(ls) THEN [header_lines |-> header_lines, body_lines |-> body_lines]
    ELSE IF Contains(ls[i], <<"-", "-", "-">>)
    THEN TableLoop(ls, i + 1, header_lines, body_lines, TRUE)
    ELSE IF Contains(ls[i], <<"|">>)
    THEN IF ~separator_found /\ Len(header_lines) = 0
         THEN TableLoop(ls, i + 1, Append(header_lines, ls[i]), body_lines, separator_found)
         ELSE TableLoop(ls, i + 1, header_lines, Append(body_lines, ls[i]), separator_found)
    ELSE TableLoop(ls, i + 1, header_lines, body_lines, separator_found)

\* _convert_table: the <thead> row (when there is one) and the <tbody> rows
convert_table(paragraph) ==
    LET parted == TableLoop(BlockLines(paragraph), 1, <<>>, <<>>, FALSE)
    IN  [tag |-> "table",
         thead |-> [i \in 1..Len(parted.header_lines) |-> table_row(parted.header_lines[i])],
         tbody |-> [i \in 1..Len(parted.body_lines) |-> table_row(parted.body_lines[i])]]

\* the stripped lines of a block: paragraph.strip().split('\n'), line.strip()
StrippedLines(paragraph) ==
    LET ls == BlockLines(paragraph) IN [i \in 1..Len(ls) |-> Strip(ls[i])]

\* _convert_section_divider, one line: <hr class="section-divider"> or <p>
divider_line(line) ==
    IF StartsWith(line, <<"=", "=", "=">>) \/ StartsWith(line, <<"-", "-", "-">>)
    THEN <<[cls |-> "hr", body |-> <<>>]>>
    ELSE IF line # <<>> THEN <<[cls |-> "p", body |-> process_coc_elements(line)]>>
    ELSE <<>>

\* _convert_section_divider
convert_section_divider(paragraph) ==
    LET ls == StrippedLines(paragraph)
    IN  [tag |-> "section_divider",
         parts |-> Concat([i \in 1..Len(ls) |-> divider_line(ls[i])])]

\* s.split(c, 1) when c is in s: what is before and after its first occurrence
SplitOnce(s, c) ==
    LET at == CHOOSE i \in 1..Len(s) : s[i] = c /\ \A j \in 1..(i - 1) : s[j] # c
    IN  <<SubSeq(s, 1, at - 1), SubSeq(s, at + 1, Len(s))>>

WideColon == "UFF1A"

\* _convert_definition_list, one line: <dt>, <dd> when there is a description,
\* <p> for a line without the marker
definition_line(line) ==
    IF StartsWith(line, <<DefinitionMarker>>)
    THEN LET text == Strip(Tail(line))
             pair == IF Contains(text, <<WideColon>>) THEN SplitOnce(text, WideColon)
                     ELSE IF Contains(text, <<":">>) THEN SplitOnce(text, ":")
                     ELSE <<text, <<>>>>
             term == Strip(pair[1])
             description == Strip(pair[2])
             processed_desc == IF description # <<>> THEN process_coc_elements(description)
                               ELSE <<>>
         IN  <<[cls |-> "dt", body |-> process_coc_elements(term)]>>
             \o (IF processed_desc # <<>> THEN <<[cls |-> "dd", body |-> processed_desc]>>
                 ELSE <<>>)
    ELSE IF line # <<>> THEN <<[cls |-> "p", body |-> process_coc_elements(line)]>>
    ELSE <<>>

\* _convert_definition_list
convert_definition_list(paragraph) ==
    LET ls == StrippedLines(paragraph)
    IN  [tag |-> "definition_list",
         parts |-> Concat([i \in 1..Len(ls) |-> definition_line(ls[i])])]

\* _convert_bullet_list, one line: <li>, or <p> for a line without the marker
bullet_line(line) ==
    IF StartsWith(line, <<BulletMarker>>)
    THEN <<[cls |-> "li", body |-> process_coc_elements(Strip(Tail(line)))]>>
    ELSE IF line # <<>> THEN <<[cls |-> "p", body |-> process_coc_elements(line)]>>
    ELSE <<>>

\* _convert_bullet_list
convert_bullet_list(paragraph) ==
    LET ls == StrippedLines(paragraph)
    IN  [tag |-> "bullet_list",
         parts |-> Concat([i \in 1..Len(ls) |-> bullet_line(ls[i])])]

Backslash == "\\"
SkillsLabel == <<"U6280", "U80FD", ":">>
EquipmentLabel == <<"U88C5", "U5099", ":">>
AttackWords ==
    {<<"U565B", "U307F", "U3064", "U304D">>, <<"U722A">>,
     <<"U30C0", "U30E1", "U30FC", "U30B8">>}

\* re.match(r'^([^()]+?)\s*(\\(.*\\))(.*)$', line).  In the raw string \\ is a
\* literal backslash and the parenthesis after it opens a group: group 1 is
\* the shortest non-empty prefix without parentheses that whitespace and a
\* backslash follow, group 2 runs from that backslash to the last backslash
\* of the line, group 3 is group 2 without its first backslash
npc_name_match(line) ==
    LET prefixes == {k \in 1..Len(line) :
                        /\ \A j \in 1..k : line[j] \notin {"(", ")"}
                        /\ LET p == k + 1 + LeadCount(SubSeq(line, k + 1, Len(line)), Whitespace)
                           IN  /\ p <= Len(line)
                               /\ line[p] = Backslash
                               /\ \E q \in (p + 1)..Len(line) : line[q] = Backslash}
    IN  IF prefixes = {} THEN [matched |-> FALSE]
        ELSE LET k == CHOOSE x \in prefixes : \A y \in prefixes : x <= y
                 p == k + 1 + LeadCount(SubSeq(line, k + 1, Len(line)), Whitespace)
                 q == CHOOSE x \in (p + 1)..Len(line) :
                          /\ line[x] = Backslash
                          /\ \A y \in (x + 1)..Len(line) : line[y] # Backslash
             IN  [matched |-> TRUE, group1 |-> SubSeq(line, 1, k),
                  group2 |-> SubSeq(line, p, q), group3 |-> SubSeq(line, p + 1, q)]

\* re.sub(r'^.*?LABEL\s*', '', line) for a line that holds the label
after_label(line, label) ==
    LET at == CHOOSE i \in 1..Len(line) :
                  OccursAt(line, label, i) /\ \A j \in 1..(i - 1) : ~OccursAt(line, label, j)
    IN  LStrip(SubSeq(line, at + Len(label), Len(line)), Whitespace)

\* re.search(r'(U+565B U+307F U+3064 U+304D|U+722A|U+30C0 U+30E1 U+30FC U+30B8|\d+d\d+)', line)
attack_search(line) ==
    \/ \E w \in AttackWords : Contains(line, w)
    \/ \E i \in 1..Len(line) :
          /\ DigitRun(line, i) > 0
          /\ i + DigitRun(line, i) <= Len(line)
          /\ line[i + DigitRun(line, i)] = "d"
          /\ DigitRun(line, i + DigitRun(line, i) + 1) > 0

\* _convert_npc_status, one non-blank line: the <div> regions written for it
npc_line(line) ==
    IF line = <<>> THEN <<>>
    ELSE IF npc_status_search(line)
    THEN LET match == npc_name_match(line)
         IN  IF match.matched
             THEN LET other_info == Strip(match.group3)
                  IN  <<[cls |-> "npc-name", body |-> process_coc_elements(Strip(match.group1))]>>
                      \o (IF other_info # <<>>
                          THEN <<[cls |-> "npc-note", body |-> process_coc_elements(other_info)]>>
                          ELSE <<>>)
                      \o <<[cls |-> "npc-stats", body |-> process_coc_elements(Strip(match.group2))]>>
             ELSE <<>>
    ELSE IF Contains(line, SkillsLabel)
    THEN <<[cls |-> "npc-skills", body |-> process_coc_elements(after_label(line, SkillsLabel))]>>
    ELSE IF Contains(line, EquipmentLabel)
    THEN <<[cls |-> "npc-equipment",
            body |-> process_coc_elements(after_label(line, EquipmentLabel))]>>
    ELSE IF attack_search(line)
    THEN <<[cls |-> "npc-attacks", body |-> process_coc_elements(line)]>>
    ELSE <<[cls |-> "npc-other", body |-> process_coc_elements(line)]>>

\* _convert_npc_status
convert_npc_status(paragraph) ==
    LET ls == StrippedLines(paragraph)
    IN  [tag |-> "npc_status", parts |-> Concat([i \in 1..Len(ls) |-> npc_line(ls[i])])]

\* dialogue_pattern.sub(r'<span class="dialogue">...</span>', paragraph), from position i
RECURSIVE DialogueSub(_, _)
DialogueSub(t, i) ==
    IF i > Len(t) THEN <<>>
    ELSE LET e == BracketMatch(t, i, QuoteOpen, QuoteClose)
         IN  IF e > 0
             THEN SpanOpen("dialogue") \o SubSeq(t, i, e - 1) \o SpanClose \o DialogueSub(t, e)
             ELSE <<t[i]>> \o DialogueSub(t, i + 1)

\* _convert_dialogue: <p class="dialogue-paragraph">{converted}</p>
convert_dialogue(paragraph) ==
    [tag |-> "dialogue", body |-> DialogueSub(paragraph, 1)]

\* the element _process_paragraphs appends for a block
convert_block(paragraph, hs) ==
    LET kind == classify(paragraph)
    IN  CASE kind = "hash_heading" -> convert_heading(paragraph, hs)
          [] kind = "numbered_heading" -> convert_numbered_heading(paragraph, hs)
          [] kind = "table" -> convert_table(paragraph)
          [] kind = "section_divider" -> convert_section_divider(paragraph)
          [] kind = "definition_list" -> convert_definition_list(paragraph)
          [] kind = "bullet_list" -> convert_bullet_list(paragraph)
          [] kind = "npc_status" -> convert_npc_status(paragraph)
          [] kind = "dialogue" -> convert_dialogue(paragraph)
          [] OTHER -> [tag |-> "p", body |-> process_coc_elements(paragraph)]

-----------------------------------------------------------------------------
(* The rendering pipeline of convert: split_paragraphs, collect_headings,   *)
(* _process_paragraphs                                                      *)

MaxDocLines == 3       \* lines of a document given to the pipeline

\* lines of the documents converted: empty, whitespace-only, indented prose,
\* a hash heading holding a pipe, a numbered heading, a divider, a definition
\* item holding a quotation, a bullet item holding an attribute block, a
\* quotation holding a pipe
PipelineLines ==
    {<<>>,
     <<" ">>,
     <<" ", "a">>,
     <<"#", "|">>,
     <<"1", ".", "a">>,
     <<"-", "-", "-">>,
     <<DefinitionMarker, QuoteOpen, QuoteClose>>,
     <<BulletMarker, "(", "H", "P", ")">>,
     <<QuoteOpen, "|", QuoteClose>>}

PipelineDocs ==
    {Join(ls, <<NL>>) : ls \in (SeqsUpTo(PipelineLines, MaxDocLines) \ {<<>>})}

InitPipeline ==
    /\ results = NewResults
    /\ summary = NewSummary
    /\ content \in PipelineDocs
    /\ config = DefaultConfig
    /\ validators = <<>>
    /\ pc = "read"
    /\ line_number = 0
    /\ vidx = 0
    /\ line_results = <<>>
    /\ calls = <<>>
    /\ paragraphs = <<>>
    /\ headings = <<>>
    /\ kinds = <<>>
    /\ rendered = <<>>
    /\ toc = <<>>
    /\ CocUnused
    /\ CallerUnused

\* convert: paragraphs = self.content_processor.split_paragraphs(content)
convert_split ==
    /\ pc = "read"
    /\ paragraphs' = split_paragraphs(content)
    /\ pc' = "split"
    /\ UNCHANGED <<reportVars, engineLocals, cocVars, callerVars, content, headings, kinds, rendered, toc>>

\* convert: headings = self.content_processor.collect_headings(paragraphs)
convert_collect ==
    /\ pc = "split"
    /\ headings' = collect_headings(paragraphs)
    /\ pc' = "collected"
    /\ UNCHANGED <<reportVars, engineLocals, cocVars, callerVars, content, paragraphs, kinds, rendered, toc>>

\* generate_html: _generate_toc, then _process_paragraphs takes one branch per block
process_paragraphs ==
    /\ pc = "collected"
    /\ toc' = generate_toc(headings)
    /\ kinds' = [i \in 1..Len(paragraphs) |-> classify(paragraphs[i])]
    /\ rendered' = [i \in 1..Len(paragraphs) |-> convert_block(paragraphs[i], headings)]
    /\ pc' = "rendered"
    /\ UNCHANGED <<reportVars, engineLocals, cocVars, callerVars, content, paragraphs, headings>>

NextPipeline ==
    \/ convert_split
    \/ convert_collect
    \/ process_paragraphs

SpecPipeline == InitPipeline /\ [][NextPipeline]_vars

-----------------------------------------------------------------------------
(* Claims on the segmenter, the classifier and the heading registry *)

Segmented == pc \in {"split", "collected", "rendered"}

\* the lines of one block
LinesOf(block) == Split(block, <<NL>>)

\* the precedence order of the block kinds
KindOrder ==
    <<"hash_heading", "numbered_heading", "section_divider", "table", "definition_list",
      "bullet_list", "npc_status", "dialogue", "paragraph">>

\* whether a block satisfies the predicate of the k-th kind; the last kind,
\* plain paragraph, has none
Satisfies(k, block) ==
    CASE k = 1 -> StartsWith(block, <<"#">>)
      [] k = 2 -> is_numbered_heading(block)
      [] k = 3 -> is_section_divider(block)
      [] k = 4 -> is_table(block)
      [] k = 5 -> is_definition_list(block)
      [] k = 6 -> is_bullet_list(block)
      [] k = 7 -> is_npc_status(block)
      [] k = 8 -> has_dialogue(block)
      [] OTHER -> TRUE

\* C4: every block the segmenter emits is non-blank and is rendered as exactly
\* one kind: the earliest kind of the precedence order whose predicate the
\* block satisfies, plain paragraph exactly when it satisfies none.
C4_BlockKind ==
    /\ Segmented => \A i \in 1..Len(paragraphs) : Strip(paragraphs[i]) # <<>>
    /\ pc = "rendered" =>
          /\ DOMAIN kinds = 1..Len(paragraphs)
          /\ \A i \in 1..Len(paragraphs) :
                \E k \in 1..Len(KindOrder) :
                   /\ kinds[i] = KindOrder[k]
                   /\ Satisfies(k, paragraphs[i])
                   /\ \A m \in 1..(k - 1) : ~Satisfies(m, paragraphs[i])

\* C4 witness: a block that is both a table and a dialogue is rendered as a
\* table, after a block of another kind
C4_Witness ==
    /\ pc = "rendered"
    /\ Len(paragraphs) = 2
    /\ kinds[1] # "table"
    /\ is_table(paragraphs[2])
    /\ has_dialogue(paragraphs[2])
    /\ kinds[2] = "table"

\* a line that is a hash heading, a numbered heading or a section divider
StructuralLine(line) ==
    \/ StartsWith(line, <<"#">>)
    \/ is_numbered_heading(line)
    \/ section_divider_match(line)

\* C5: in the segmenter's output a heading line (hash-style or numbered) or a
\* section-divider line is never in a block with another line: a block that
\* holds such a line is that single line.
C5_StructuralLinesAlone ==
    Segmented =>
       \A i \in 1..Len(paragraphs) :
          (\E k \in 1..Len(LinesOf(paragraphs[i])) : StructuralLine(LinesOf(paragraphs[i])[k]))
             => Len(LinesOf(paragraphs[i])) = 1

\* the lines of the document
DocLines == Split(content, <<NL>>)

\* the indices of the non-blank lines of ls from i on, in order
RECURSIVE NonBlankFrom(_, _)
NonBlankFrom(ls, i) ==
    IF i > Len(ls) THEN <<>>
    ELSE (IF Strip(ls[i]) # <<>> THEN <<i>> ELSE <<>>) \o NonBlankFrom(ls, i + 1)

\* for each line of the blocks, in block order, the index of its block
RECURSIVE OwnersFrom(_, _)
OwnersFrom(ps, i) ==
    IF i > Len(ps) THEN <<>>
    ELSE [j \in 1..Len(LinesOf(ps[i])) |-> i] \o OwnersFrom(ps, i + 1)

\* the lines of the blocks, in block order
RECURSIVE FlatLines(_)
FlatLines(ps) == IF ps = <<>> THEN <<>> ELSE LinesOf(ps[1]) \o FlatLines(Tail(ps))

\* C6: two non-blank lines of the document that have one or more
\* whitespace-only lines (empty, or only spaces or tabs) between them are never
\* placed in the same block by split_paragraphs.  The k-th line of the blocks
\* is the k-th non-blank line of the document (C7).
C6_BlankLineSeparates ==
    Segmented =>
       LET nb == NonBlankFrom(DocLines, 1)
           own == OwnersFrom(paragraphs, 1)
       IN  \A k \in 1..Len(nb) : \A m \in (k + 1)..Len(nb) :
              (nb[m] - nb[k] > m - k /\ m <= Len(own)) => own[k] # own[m]

\* C7: the lines of the blocks split_paragraphs returns, concatenated in block
\* order, are exactly the trimmed non-blank lines of the document in their
\* original order, and no returned block is empty.
C7_LinesPreserved ==
    Segmented =>
       LET nb == NonBlankFrom(DocLines, 1)
       IN  /\ FlatLines(paragraphs) = [k \in 1..Len(nb) |-> Strip(DocLines[nb[k]])]
           /\ \A i \in 1..Len(paragraphs) : paragraphs[i] # <<>>

\* C7 witness: a document with an empty line, a whitespace-only line and an
\* indented line was split into two blocks
C7_Witness ==
    /\ pc = "split"
    /\ \E i \in 1..Len(DocLines) : DocLines[i] = <<" ", "a">>
    /\ \E i \in 1..Len(DocLines) : DocLines[i] = <<" ">>
    /\ Len(DocLines) > Len(NonBlankFrom(DocLines, 1))
    /\ Len(paragraphs) = 2

\* C10: no two headings collected by collect_headings have the same
\* identifier.
C10_IdentifiersUnique ==
    pc \in {"collected", "rendered"} =>
       \A i \in 1..Len(headings) : \A j \in 1..Len(headings) :
          i # j => headings[i].id # headings[j].id

-----------------------------------------------------------------------------
(* process_coc_elements applied to a prose text, and to its own output *)

MaxPieces == 3         \* pieces a prose text is made of

\* the pieces of the prose texts: the parts of a sanity-loss token and of a
\* dice roll, a skill and an item holding reserved characters, an ampersand
CocPieces ==
    {<<"SAN">>, <<"c">>, <<"1", "/", "1">>, <<"d", "6">>, <<"1">>, <<"+", "1">>,
     <<SkillOpen, "<", SkillClose>>, <<ItemOpen, "'", ItemClose>>, <<"&">>}

CocTexts == {Concat(ps) : ps \in SeqsUpTo(CocPieces, MaxPieces)}

InitCoc ==
    /\ ReportUnused
    /\ EngineUnused
    /\ PipelineUnused
    /\ content = <<>>
    /\ pc = "coc"
    /\ coc_text \in CocTexts
    /\ coc_html = <<>>
    /\ coc_html_again = <<>>
    /\ CallerUnused

\* process_coc_elements(text)
process_text ==
    /\ pc = "coc"
    /\ coc_html' = process_coc_elements(coc_text)
    /\ pc' = "coc_once"
    /\ UNCHANGED <<reportVars, engineLocals, pipelineVars, callerVars, content, coc_text, coc_html_again>>

\* process_coc_elements on what it returned
process_output ==
    /\ pc = "coc_once"
    /\ coc_html_again' = process_coc_elements(coc_html)
    /\ pc' = "coc_twice"
    /\ UNCHANGED <<reportVars, engineLocals, pipelineVars, callerVars, content, coc_text, coc_html>>

NextCoc ==
    \/ process_text
    \/ process_output

SpecCoc == InitCoc /\ [][NextCoc]_vars

-----------------------------------------------------------------------------
(* Claims on the notation transpiler *)

SpanClasses == {"coc-san", "coc-dice", "coc-skill", "coc-item"}

\* the positions of t where the span of class cls opens
SpansOf(t, cls) == {i \in 1..Len(t) : OccursAt(t, SpanOpen(cls), i)}

\* the sanity-loss tokens of t from position i on, in order
RECURSIVE SanTokens(_, _)
SanTokens(t, i) ==
    IF i > Len(t) THEN <<>>
    ELSE LET e == SanMatch(t, i)
         IN  IF e > 0 THEN <<SubSeq(t, i, e - 1)>> \o SanTokens(t, e)
             ELSE SanTokens(t, i + 1)

\* C8: process_coc_elements wraps each sanity-loss token (SAN, optional c,
\* digits/digits, optional d+digits, optional signed integer) in exactly one
\* sanity-loss span, and nothing inside the token (its <count>d<sides> part in
\* particular) is wrapped in a dice span as well: the output holds the span
\* opening, the whole token and the span closing in a row.
C8_SanTokenWrappedOnce ==
    pc \in {"coc_once", "coc_twice"} =>
       LET tokens == SanTokens(escape_html(coc_text), 1)
       IN  /\ Cardinality(SpansOf(coc_html, "coc-san")) = Len(tokens)
           /\ \A k \in 1..Len(tokens) :
                 Contains(coc_html, SpanOpen("coc-san") \o tokens[k] \o SpanClose)

\* C9: process_coc_elements applied to its own output wraps no already
\* wrapped span again: the number of notation spans of each kind is the same
\* after the second application as after the first.
C9_SecondPassKeepsSpans ==
    pc = "coc_twice" =>
       \A cls \in SpanClasses :
          Cardinality(SpansOf(coc_html_again, cls)) = Cardinality(SpansOf(coc_html, cls))


-----------------------------------------------------------------------------
(* convert on documents made of headings *)

MaxHeadings == 2       \* heading lines of a document

Fullwidth == "UFF01"   \* a punctuation mark outside ASCII: not \w, not \s

\* '#' * k
Hashes(k) == [i \in 1..k |-> "#"]

\* hash heading lines: one, six and seven # characters before a title in
\* Latin script, in another script, in another script with punctuation
HashHeadingLines ==
    {Hashes(k) \o <<" ">> \o title :
        k \in {1, 6, 7}, title \in {<<"a">>, <<Kanji>>, <<Kanji, Fullwidth>>}}

\* numbered heading lines: one, two and three digit groups, with and without
\* a space after the dot, before a title that starts with a letter or a digit
NumberedHeadingLines ==
    {path \o <<".">> \o gap \o title :
        path \in {<<"1">>, <<"1", "-", "2">>, <<"1", "-", "2", "-", "3">>},
        gap \in {<<>>, <<" ">>},
        title \in {<<"a">>, <<"2", "a">>}}

HeadingDocs ==
    {Join(ls, <<NL, NL>>) :
        ls \in (SeqsUpTo(HashHeadingLines \cup NumberedHeadingLines, MaxHeadings) \ {<<>>})}

InitHeadings ==
    /\ ReportUnused
    /\ EngineUnused
    /\ PipelineUnused
    /\ CocUnused
    /\ CallerUnused
    /\ content \in HeadingDocs
    /\ pc = "read"

SpecHeadings == InitHeadings /\ [][NextPipeline]_vars

-----------------------------------------------------------------------------
(* Claims on the heading registry and the heading elements *)

Collected == pc \in {"collected", "rendered"}

\* the position in headings of the heading recorded for block i
HeadingIndex(i) ==
    Cardinality({j \in 1..i : \/ StartsWith(paragraphs[j], <<"#">>)
                              \/ is_numbered_heading(paragraphs[j])})

\* a heading text the hash fallback is for: no ASCII alphanumeric character,
\* no digit at its start
HashFallbackText(htext) ==
    /\ \A i \in 1..Len(htext) : htext[i] \notin AsciiAlnum
    /\ htext = <<>> \/ htext[1] \notin Digits

\* C11: two headings whose texts are distinct, hold no ASCII alphanumeric
\* character and start with no digit have distinct identifiers (the content
\* hash taken as collision-free)
C11_HashFallbackDistinct ==
    Collected =>
        \A i, j \in 1..Len(headings) :
            (/\ headings[i].text # headings[j].text
             /\ HashFallbackText(headings[i].text)
             /\ HashFallbackText(headings[j].text))
            => headings[i].id # headings[j].id

\* the number path of a numbered heading line: what stands before its first dot
NumberPath(line) ==
    SubSeq(line, 1, (CHOOSE i \in 1..Len(line) : line[i] = "." /\ \A j \in 1..(i - 1) : line[j] # ".") - 1)

\* the number of hyphen-separated groups of a number path
PathGroups(path) == 1 + Cardinality({i \in 1..Len(path) : path[i] = "-"})

\* C12: the identifier of a numbered heading P.title or P. title is heading-P,
\* whatever the title is
C12_NumberedIdIsPath ==
    Collected =>
        \A i \in 1..Len(paragraphs) :
            is_numbered_heading(paragraphs[i]) /\ ~StartsWith(paragraphs[i], <<"#">>)
            => headings[HeadingIndex(i)].id = HeadingId(FALSE, NumberPath(paragraphs[i]))

\* C13: a hash heading with k leading # characters is recorded with level
\* min(k, 6), the level of the heading element emitted for it
C13_HashLevelCapped ==
    pc = "rendered" =>
        \A i \in 1..Len(paragraphs) :
            StartsWith(paragraphs[i], <<"#">>)
            => LET k == LeadCount(paragraphs[i], {"#"})
               IN  /\ headings[HeadingIndex(i)].level = (IF k < 6 THEN k ELSE 6)
                   /\ headings[HeadingIndex(i)].level = rendered[i].level

\* C14: a numbered heading is recorded, and its element emitted, with the
\* level equal to the number of digit groups before the dot
C14_NumberedLevelIsGroups ==
    pc = "rendered" =>
        \A i \in 1..Len(paragraphs) :
            is_numbered_heading(paragraphs[i]) /\ ~StartsWith(paragraphs[i], <<"#">>)
            => LET groups == PathGroups(NumberPath(paragraphs[i]))
               IN  /\ headings[HeadingIndex(i)].level = groups
                   /\ rendered[i].tag = "h"
                   /\ rendered[i].level = groups

\* a three-group heading without a space and a two-group heading with one,
\* both recorded and rendered
C14_Witness ==
    /\ pc = "rendered"
    /\ Len(paragraphs) = 2
    /\ paragraphs[1] = <<"1", "-", "2", "-", "3", ".", "a">>
    /\ paragraphs[2] = <<"1", "-", "2", ".", " ", "a">>
    /\ headings[1].level = 3 /\ rendered[1].level = 3
    /\ headings[2].level = 2 /\ rendered[2].level = 2


-----------------------------------------------------------------------------
(* validate_document on documents made of headings, no validator registered *)

MaxStructureLines == 3     \* lines of a document given to the structure check

\* blank, prose, hash headings of level 1 to 3, numbered headings of one to
\* three digit groups
StructureLines ==
    {<<>>, <<"a">>,
     <<"#", "a">>, <<"#", "#", "a">>, <<"#", "#", "#", "a">>,
     <<"1", ".", "a">>, <<"1", "-", "1", ".", "a">>, <<"1", "-", "1", "-", "1", ".", "a">>}

StructureDocs ==
    {Join(ls, <<NL>>) : ls \in (SeqsUpTo(StructureLines, MaxStructureLines) \ {<<>>})}

InitStructure ==
    /\ ReportUnused
    /\ EngineUnused
    /\ PipelineUnused
    /\ CocUnused
    /\ CallerUnused
    /\ content \in StructureDocs
    /\ pc = "idle"

NextStructure ==
    \/ validate_document
    \/ line_done
    \/ document_phase

SpecStructure == InitStructure /\ [][NextStructure]_vars

-----------------------------------------------------------------------------
(* Claim on the document phase *)

\* the heading lines of a document from line n on, as (level, line_number):
\* a hash heading has the level of its # run, a numbered heading the number
\* of digit groups before its dot
RECURSIVE HeadingLinesFrom(_, _)
HeadingLinesFrom(ls, n) ==
    IF n > Len(ls) THEN <<>>
    ELSE LET line == Strip(ls[n])
             rest == HeadingLinesFrom(ls, n + 1)
         IN  IF StartsWith(line, <<"#">>)
             THEN <<[level |-> LeadCount(line, {"#"}), line_number |-> n]>> \o rest
             ELSE IF \E k \in 1..3 : MatchNumDot(line, k)
             THEN <<[level |-> CHOOSE k \in 1..3 : MatchNumDot(line, k), line_number |-> n]>>
                     \o rest
             ELSE rest

\* the line numbers of the headings after the first whose level is more than
\* one above the level of the heading before
SkippingLines(hl) ==
    {hl[i].line_number : i \in {j \in 2..Len(hl) : hl[j].level > hl[j - 1].level + 1}}

\* the line numbers the report holds a HEADING_HIERARCHY warning for
FlaggedLines ==
    {results[i].line_number :
        i \in {j \in 1..Len(results) : results[j].code = HEADING_HIERARCHY}}

\* C15: after validate_document, a heading after the first has a
\* HEADING_HIERARCHY warning at its line exactly when its level is more than
\* one above the level of the heading before it
C15_HierarchyFlagged ==
    pc = "done" =>
        LET hl == HeadingLinesFrom(lines, 1)
        IN  \A i \in 2..Len(hl) :
                (hl[i].line_number \in FlaggedLines) <=> (hl[i].line_number \in SkippingLines(hl))

\* C29: after validate_document, the first heading of the document has a
\* HEADING_HIERARCHY warning at its line exactly when its level is 2 or more:
\* it is compared with a level 0 before it
C29_FirstHeadingFromZero ==
    pc = "done" =>
        LET hl == HeadingLinesFrom(lines, 1)
        IN  hl # <<>> => ((hl[1].line_number \in FlaggedLines) <=> (hl[1].level >= 2))


-----------------------------------------------------------------------------
(* The validators: SkillValidator, HeadingValidator, DiceValidator          *)

SKILL_UNKNOWN == "SKILL_UNKNOWN"
HEADING_EMPTY == "HEADING_EMPTY"
HEADING_TOO_LONG == "HEADING_TOO_LONG"
HEADING_TOO_DEEP == "HEADING_TOO_DEEP"
DICE_COUNT_HIGH == "DICE_COUNT_HIGH"
DICE_SIDES_UNUSUAL == "DICE_SIDES_UNUSUAL"
DICE_MODIFIER_HIGH == "DICE_MODIFIER_HIGH"

\* the absent value of an Optional[str] field
None == <<"None">>

\* BaseValidator._create_result; a message or suggestion is the name of its
\* text followed by what the text is formatted with
create_result(lvl, msg, hint, lnum, cd, original, fix) ==
    [level |-> lvl, message |-> msg, suggestion |-> hint, line_number |-> lnum,
     code |-> cd, original_text |-> original, proposed_fix |-> fix]

\* COC6_SKILLS, each name by the code points of its characters
COC6_SKILLS ==
    <<<<"U76EE", "U661F">>, <<"U805E", "U304D", "U8033">>, <<"U56F3", "U66F8", "U9928">>,
      <<"U8AAC", "U5F97">>, <<"U4FE1", "U7528">>, <<"U96A0", "U308C", "U308B">>,
      <<"U5FCD", "U3073", "U6B69", "U304D">>, <<"U9375", "U958B", "U3051">>,
      <<"U6A5F", "U68B0", "U4FEE", "U7406">>,
      <<"U30B3", "U30F3", "U30D4", "U30E5", "U30FC", "U30BF">>, <<"U904B", "U8EE2">>,
      <<"U64CD", "U7E26">>, <<"U5FC3", "U7406", "U5B66">>, <<"U533B", "U5B66">>,
      <<"U5FDC", "U6025", "U624B", "U5F53">>, <<"U7CBE", "U795E", "U5206", "U6790">>,
      <<"U30AA", "U30AB", "U30EB", "U30C8">>, <<"U4EBA", "U985E", "U5B66">>,
      <<"U8003", "U53E4", "U5B66">>, <<"U6B74", "U53F2">>, <<"U81EA", "U7136", "U53F2">>,
      <<"U7269", "U7406", "U5B66">>, <<"U5316", "U5B66">>, <<"U751F", "U7269", "U5B66">>,
      <<"U5730", "U8CEA", "U5B66">>, <<"U5929", "U6587", "U5B66">>,
      <<"U96FB", "U6C17", "U4FEE", "U7406">>, <<"U96FB", "U5B50", "U5DE5", "U5B66">>,
      <<"U30CA", "U30D3", "U30B2", "U30FC", "U30C8">>, <<"U8FFD", "U8DE1">>,
      <<"U5199", "U771F", "U8853">>, <<"U82B8", "U8853">>,
      <<"U30AF", "U30C8", "U30A5", "U30EB", "U30D5", "U795E", "U8A71">>,
      <<"U6BCD", "U56FD", "U8A9E">>, <<"U4ED6", "U306E", "U8A00", "U8A9E">>,
      <<"U56DE", "U907F">>, <<"U30AD", "U30C3", "U30AF">>,
      <<"U7D44", "U307F", "U4ED8", "U304D">>, <<"U3053", "U3076", "U3057">>,
      <<"U982D", "U7A81", "U304D">>, <<"U6295", "U64F2">>,
      <<"U30DE", "U30FC", "U30B7", "U30E3", "U30EB", "U30A2", "U30FC", "U30C4">>,
      <<"U5263", "U9053">>, <<"U62F3", "U9283">>,
      <<"U30B5", "U30D6", "U30DE", "U30B7", "U30F3", "U30AC", "U30F3">>,
      <<"U30B7", "U30E7", "U30C3", "U30C8", "U30AC", "U30F3">>,
      <<"U30DE", "U30B7", "U30F3", "U30AC", "U30F3">>,
      <<"U30E9", "U30A4", "U30D5", "U30EB">>>>

\* re.finditer(r'U+3010([^close]+)U+3011', text) from position i: group(1) of each match
RECURSIVE skill_matches(_, _)
skill_matches(text, i) ==
    IF i > Len(text) THEN <<>>
    ELSE LET e == BracketMatch(text, i, SkillOpen, SkillClose)
         IN  IF e > 0 THEN <<SubSeq(text, i + 1, e - 2)>> \o skill_matches(text, e)
             ELSE skill_matches(text, i + 1)

\* re.sub(r'[+\-]\d+$', '', skill_name)
strip_modifier(skill_name) ==
    LET starts == {i \in 1..(Len(skill_name) - 1) :
                      /\ skill_name[i] \in {"+", "-"}
                      /\ \A j \in (i + 1)..Len(skill_name) : skill_name[j] \in Digits}
    IN  IF starts = {} THEN skill_name
        ELSE SubSeq(skill_name, 1, (CHOOSE i \in starts : \A j \in starts : i <= j) - 1)

\* re.sub(r'or.+$', '', base_skill)
strip_alternative(name) ==
    LET starts == {i \in 1..(Len(name) - 2) :
                      name[i] = "o" /\ name[i + 1] = "r" /\ \A j \in (i + 2)..Len(name) : name[j] # NL}
    IN  IF starts = {} THEN name
        ELSE SubSeq(name, 1, (CHOOSE i \in starts : \A j \in starts : i <= j) - 1)

\* SkillValidator.validate: base_skill of a skill_name
base_skill(skill_name) == strip_alternative(strip_modifier(skill_name))

\* all_skills = COC6_SKILLS + self.config.custom_skills
all_skills(cfg) == COC6_SKILLS \o cfg.custom_skills

Min3(a, b, c) == IF a <= b /\ a <= c THEN a ELSE IF b <= c THEN b ELSE c

\* _simple_distance, the inner loop: new_distances for one char2
RECURSIVE DistanceRow(_, _, _, _, _)
DistanceRow(s1, char2, distances, new_distances, k) ==
    IF k > Len(s1) THEN new_distances
    ELSE DistanceRow(s1, char2, distances,
            Append(new_distances,
                   IF s1[k] = char2 THEN distances[k]
                   ELSE 1 + Min3(distances[k], distances[k + 1],
                                 new_distances[Len(new_distances)])),
            k + 1)

\* _simple_distance, the outer loop from the j-th character of s2 on
RECURSIVE DistanceRows(_, _, _, _)
DistanceRows(s1, s2, j, distances) ==
    IF j > Len(s2) THEN distances
    ELSE DistanceRows(s1, s2, j + 1, DistanceRow(s1, s2[j], distances, <<j>>, 1))

\* SkillValidator._simple_distance
simple_distance(a, b) ==
    LET s1 == IF Len(a) > Len(b) THEN b ELSE a
        s2 == IF Len(a) > Len(b) THEN a ELSE b
    IN  DistanceRows(s1, s2, 1, [k \in 1..(Len(s1) + 1) |-> k - 1])[Len(s1) + 1]

\* _find_similar_skill that keeps the first skill of a score <= 2
find_similar_skill_first(input_skill, skill_list) ==
    LET close == {k \in 1..Len(skill_list) : simple_distance(input_skill, skill_list[k]) <= 2}
    IN  IF close = {} THEN <<>>
        ELSE <<skill_list[CHOOSE k \in close : \A j \in close : k <= j]>>

\* SkillValidator._find_similar_skill: the loop keeps the first skill of the
\* least score among the scores <= 2; <<>> is None
find_similar_skill(input_skill, skill_list) ==
    LET scores == [k \in 1..Len(skill_list) |-> simple_distance(input_skill, skill_list[k])]
        close == {k \in 1..Len(skill_list) : scores[k] <= 2}
        best == {k \in close : \A j \in close : scores[k] <= scores[j]}
    IN  IF close = {} THEN <<>>
        ELSE <<skill_list[CHOOSE k \in best : \A j \in best : k <= j]>>

\* the level of an unknown-skill result that ignores strict_mode
unknown_level_lenient(cfg) == SUGGESTION

\* ValidationLevel.WARNING if self.config.strict_mode else ValidationLevel.SUGGESTION
unknown_level(cfg) == IF cfg.strict_mode THEN WARNING ELSE SUGGESTION

\* SkillValidator.validate, the body of the loop for one match: its results
skill_results(skill_name, ln, cfg) ==
    LET base == base_skill(skill_name)
        member == \E s \in 1..Len(all_skills(cfg)) : all_skills(cfg)[s] = base
        similar == find_similar_skill(base, all_skills(cfg))
        matched_text == <<SkillOpen>> \o skill_name \o <<SkillClose>>
    IN  IF member THEN <<>>
        ELSE IF similar = <<>>
        THEN <<create_result(unknown_level(cfg), <<"unknown_skill", skill_name>>,
                             <<"check_standard_names">>,
                             ln, SKILL_UNKNOWN, matched_text, None)>>
        ELSE <<create_result(unknown_level(cfg), <<"unknown_skill", skill_name>>,
                             <<"did_you_mean", <<SkillOpen>> \o similar[1] \o <<SkillClose>>>>,
                             ln, SKILL_UNKNOWN, matched_text,
                             <<SkillOpen>> \o similar[1] \o <<SkillClose>>)>>

\* SkillValidator.validate
RECURSIVE SkillLoop(_, _, _, _)
SkillLoop(names, n, ln, cfg) ==
    IF n > Len(names) THEN <<>>
    ELSE skill_results(names[n], ln, cfg) \o SkillLoop(names, n + 1, ln, cfg)

skill_validate(text, ln, cfg) == SkillLoop(skill_matches(text, 1), 1, ln, cfg)


HeadingMaxLength == 100    \* len(heading_text) > 100

\* re.match(r'^\d+-\d+-\d+-', line)
MatchTooDeep(line) ==
    LET e == NumGroups(line, 1, 3)
    IN  e > 0 /\ e <= Len(line) /\ line[e] = "-"

\* HeadingValidator.validate
heading_validate(text, ln, cfg) ==
    LET line == Strip(text)
        heading_text == Strip(LStrip(line, {"#"}))
    IN  IF StartsWith(line, <<"#">>)
        THEN IF heading_text = <<>>
             THEN <<create_result(CRITICAL, <<"heading_empty">>, <<"add_heading_text">>,
                                  ln, HEADING_EMPTY, None, None)>>
             ELSE IF Len(heading_text) > HeadingMaxLength
             THEN <<create_result(WARNING, <<"heading_too_long">>, <<"shorten_heading">>,
                                  ln, HEADING_TOO_LONG, None, None)>>
             ELSE <<>>
        ELSE IF DigitRun(line, 1) > 0 /\ MatchTooDeep(line)
        THEN <<create_result(INFO, <<"heading_too_deep">>, <<"review_structure">>,
                             ln, HEADING_TOO_DEEP, None, None)>>
        ELSE <<>>

DiceCountLimit == 100      \* dice_count > 100
ModifierLimit == 50        \* modifier_value > 50

\* standard_dice
standard_dice == <<2, 3, 4, 6, 8, 10, 12, 20, 100>>

\* int(c) for one digit
DigitValue(c) ==
    CASE c = "0" -> 0 [] c = "1" -> 1 [] c = "2" -> 2 [] c = "3" -> 3 [] c = "4" -> 4
      [] c = "5" -> 5 [] c = "6" -> 6 [] c = "7" -> 7 [] c = "8" -> 8 [] c = "9" -> 9

\* int(s) for a run of digits
RECURSIVE IntOf(_)
IntOf(s) ==
    IF s = <<>> THEN 0 ELSE 10 * IntOf(SubSeq(s, 1, Len(s) - 1)) + DigitValue(s[Len(s)])

\* dice_pattern (\d+)d(\d+)(?:([+\-])(\d+))? with re.IGNORECASE at position i:
\* the groups and the position after the match, matched FALSE when none
dice_match(text, i) ==
    LET n1 == DigitRun(text, i)
        d == i + n1
        n2 == DigitRun(text, d + 1)
        s == d + 1 + n2
        n3 == DigitRun(text, s + 1)
        with_modifier == s <= Len(text) /\ text[s] \in {"+", "-"} /\ n3 > 0
    IN  IF n1 = 0 \/ d > Len(text) \/ text[d] \notin {"d", "D"} \/ n2 = 0
        THEN [matched |-> FALSE]
        ELSE [matched |-> TRUE,
              group1 |-> SubSeq(text, i, d - 1),
              group2 |-> SubSeq(text, d + 1, s - 1),
              group3 |-> IF with_modifier THEN <<text[s]>> ELSE None,
              group4 |-> IF with_modifier THEN SubSeq(text, s + 1, s + n3) ELSE None,
              end |-> IF with_modifier THEN s + 1 + n3 ELSE s]

\* re.finditer(dice_pattern, text, re.IGNORECASE) from position i
RECURSIVE dice_matches(_, _)
dice_matches(text, i) ==
    IF i > Len(text) THEN <<>>
    ELSE LET mt == dice_match(text, i)
         IN  IF mt.matched THEN <<mt>> \o dice_matches(text, mt.end)
             ELSE dice_matches(text, i + 1)

\* modifier_value that carries the sign of the modifier
modifier_value_signed(mt) ==
    IF mt.group4 = None THEN 0
    ELSE IF mt.group3 = <<"-">> THEN 0 - IntOf(mt.group4) ELSE IntOf(mt.group4)

\* modifier_value = int(match.group(4)) if match.group(4) else 0
modifier_value(mt) == IF mt.group4 = None THEN 0 ELSE IntOf(mt.group4)

\* DiceValidator.validate, the body of the loop for one match: its results
dice_results(mt, ln) ==
    LET dice_count == IntOf(mt.group1)
        die_sides == IntOf(mt.group2)
    IN  (IF dice_count > DiceCountLimit
         THEN <<create_result(WARNING, <<"dice_count_high">>, <<"adjust_dice_count">>,
                              ln, DICE_COUNT_HIGH, None, None)>>
         ELSE <<>>)
        \o (IF \A s \in 1..Len(standard_dice) : standard_dice[s] # die_sides
            THEN <<create_result(INFO, <<"dice_sides_unusual">>, <<"use_standard_dice">>,
                                 ln, DICE_SIDES_UNUSUAL, None, None)>>
            ELSE <<>>)
        \o (IF modifier_value(mt) > ModifierLimit
            THEN <<create_result(WARNING, <<"dice_modifier_high">>, <<"adjust_modifier">>,
                                 ln, DICE_MODIFIER_HIGH, None, None)>>
            ELSE <<>>)

\* DiceValidator.validate
RECURSIVE DiceLoop(_, _, _)
DiceLoop(ms, n, ln) ==
    IF n > Len(ms) THEN <<>> ELSE dice_results(ms[n], ln) \o DiceLoop(ms, n + 1, ln)

dice_validate(text, ln, cfg) == DiceLoop(dice_matches(text, 1), 1, ln)


-----------------------------------------------------------------------------
(* One validator, built with a config, validating one line *)

MaxOccurrences == 2    \* notation occurrences in a line given to a validator

\* names inside the skill brackets: a built-in name, alone, with a modifier
\* and with an alternative, a misspelt one, alone and with a modifier, names a
\* config adds, a name unlike any built-in one
Axe == <<"A", "x", "e">>
Sword == <<"S", "w", "o", "r", "d">>
SkillNames ==
    {<<"U76EE", "U661F">>,
     <<"U76EE", "U661F", "+", "1", "0">>,
     <<"U76EE", "U661F", "o", "r", "U805E", "U304D", "U8033">>,
     <<"U76EE", "U3060", "U307E">>,
     <<"U76EE", "U3060", "U307E", "-", "5">>,
     Axe,
     Sword,
     Sword \o <<"+", "1">>,
     <<"x", "y", "z", "x", "y", "z">>}

\* a line of prose holding the given occurrences, in order
RECURSIVE LineOf(_)
LineOf(occurrences) ==
    IF occurrences = <<>> THEN <<"a">>
    ELSE <<"a">> \o occurrences[1] \o LineOf(Tail(occurrences))

SkillLines ==
    {LineOf([k \in 1..Len(ns) |-> <<SkillOpen>> \o ns[k] \o <<SkillClose>>]) :
        ns \in SeqsUpTo(SkillNames, MaxOccurrences)}

SkillConfigs ==
    {[strict_mode |-> s, custom_skills |-> c] : s \in BOOLEAN, c \in {<<>>, <<Axe, Sword>>}}

\* 'a' * n
Run(n) == [i \in 1..n |-> "a"]

\* lines for the heading checker: hash headings that are empty, short, of
\* exactly and of one more than the longest accepted length, numbered lines
\* of one to five digit groups, a three-group line going on with a hyphen,
\* prose, each as it is and indented
HeadingLines ==
    LET plain == {<<>>, <<"a">>,
                  <<"#">>, <<"#", "#", " ">>, <<"#", " ", "a">>,
                  <<"#", " ">> \o Run(HeadingMaxLength),
                  <<"#", "#">> \o Run(HeadingMaxLength + 1),
                  <<"1", ".", "a">>,
                  <<"1", "-", "2", ".", "a">>,
                  <<"1", "-", "2", "-", "3", ".", "a">>,
                  <<"1", "-", "2", "-", "3", "-", "4", ".", "a">>,
                  <<"1", "-", "2", "-", "3", "-", "4", "-", "5", ".", "a">>,
                  <<"1", "-", "2", "-", "3", "-", "a">>}
    IN  plain \cup {<<" ">> \o l \o <<" ">> : l \in plain}

\* dice occurrences: count, d in either case, sides, modifier at and around
\* the limits
DiceOccurrences ==
    {count \o d \o sides \o modifier :
        count \in {<<"1">>, <<"1", "0", "0">>, <<"1", "0", "1">>},
        d \in {<<"d">>, <<"D">>},
        sides \in {<<"6">>, <<"7">>, <<"1", "0", "0">>},
        modifier \in {<<>>, <<"+", "5", "0">>, <<"+", "5", "1">>, <<"-", "5", "0">>,
                      <<"-", "5", "1">>}}

\* the occurrences lines of several occurrences are made of
DiceOccurrencesShort ==
    {<<"1", "d", "6">>, <<"1", "0", "1", "D", "7", "-", "5", "1">>, <<"2", "d", "1", "0", "+", "5", "1">>}

DiceLines ==
    {LineOf(os) : os \in SeqsUpTo(DiceOccurrencesShort, MaxOccurrences)}
        \cup {LineOf(<<o>>) : o \in DiceOccurrences}

InitChecker ==
    /\ ReportUnused
    /\ PipelineUnused
    /\ CocUnused
    /\ CallerUnused
    /\ \/ validators = <<"SkillValidator">> /\ content \in SkillLines /\ config \in SkillConfigs
       \/ validators = <<"HeadingValidator">> /\ content \in HeadingLines /\ config = DefaultConfig
       \/ validators = <<"DiceValidator">> /\ content \in DiceLines /\ config = DefaultConfig
    /\ pc = "check"
    /\ line_number = 1
    /\ vidx = 1
    /\ line_results = <<>>
    /\ calls = <<>>

\* SkillValidator(config).validate(content, line_number)
skill_validator_validate ==
    /\ pc = "check"
    /\ validators[vidx] = "SkillValidator"
    /\ line_results' = skill_validate(content, line_number, config)
    /\ pc' = "checked"
    /\ UNCHANGED <<reportVars, pipelineVars, cocVars, callerVars, config, content, validators,
                   line_number, vidx, calls>>

\* HeadingValidator(config).validate(content, line_number)
heading_validator_validate ==
    /\ pc = "check"
    /\ validators[vidx] = "HeadingValidator"
    /\ line_results' = heading_validate(content, line_number, config)
    /\ pc' = "checked"
    /\ UNCHANGED <<reportVars, pipelineVars, cocVars, callerVars, config, content, validators,
                   line_number, vidx, calls>>

\* DiceValidator(config).validate(content, line_number)
dice_validator_validate ==
    /\ pc = "check"
    /\ validators[vidx] = "DiceValidator"
    /\ line_results' = dice_validate(content, line_number, config)
    /\ pc' = "checked"
    /\ UNCHANGED <<reportVars, pipelineVars, cocVars, callerVars, config, content, validators,
                   line_number, vidx, calls>>

NextChecker ==
    \/ skill_validator_validate
    \/ heading_validator_validate
    \/ dice_validator_validate

SpecChecker == InitChecker /\ [][NextChecker]_vars


-----------------------------------------------------------------------------
(* Claims on the validators *)

Checked(name) == pc = "checked" /\ validators[vidx] = name

\* the vocabulary of a config: the built-in names and the names it adds
Vocabulary(cfg) == {all_skills(cfg)[k] : k \in 1..Len(all_skills(cfg))}

\* the names of the skill occurrences of the line whose base name is unknown
UnknownNames ==
    SelectSeq(skill_matches(content, 1), LAMBDA name : base_skill(name) \notin Vocabulary(config))

\* C16: the Vocabulary Checker returns one SKILL_UNKNOWN diagnostic per
\* occurrence whose base name is not in the vocabulary, in order, and nothing
\* else; its level is WARNING in strict mode and SUGGESTION otherwise
C16_OnePerUnknownSkill ==
    Checked("SkillValidator") =>
        /\ Len(line_results) = Len(UnknownNames)
        /\ \A k \in 1..Len(line_results) :
              /\ line_results[k].code = SKILL_UNKNOWN
              /\ line_results[k].original_text
                    = <<SkillOpen>> \o UnknownNames[k] \o <<SkillClose>>
              /\ line_results[k].level = (IF config.strict_mode THEN WARNING ELSE SUGGESTION)

\* strict mode, a known skill with a modifier then a misspelt one: one warning
C16_Witness ==
    /\ Checked("SkillValidator")
    /\ config.strict_mode
    /\ skill_matches(content, 1)
          = <<<<"U76EE", "U661F", "+", "1", "0">>, <<"U76EE", "U3060", "U307E">>>>
    /\ Len(line_results) = 1
    /\ line_results[1].level = WARNING

\* a name of the vocabulary, alone or followed by a signed-integer modifier
MemberOccurrence(name, cfg) ==
    \/ name \in Vocabulary(cfg)
    \/ \E i \in 1..(Len(name) - 2) :
          /\ SubSeq(name, 1, i) \in Vocabulary(cfg)
          /\ name[i + 1] \in {"+", "-"}
          /\ \A j \in (i + 2)..Len(name) : name[j] \in Digits

\* C17: an occurrence of a name of the vocabulary (built-in or added by the
\* config), alone or with a modifier, gets no diagnostic
C17_MembersAccepted ==
    Checked("SkillValidator") =>
        \A k \in 1..Len(skill_matches(content, 1)) :
            LET name == skill_matches(content, 1)[k]
            IN  MemberOccurrence(name, config)
                => \A r \in 1..Len(line_results) :
                      line_results[r].original_text # <<SkillOpen>> \o name \o <<SkillClose>>

\* the results of the call that have a code
WithCode(code) == {k \in 1..Len(line_results) : line_results[k].code = code}

\* the dice occurrences of the line that satisfy a test, by position
DiceCountHigh ==
    {k \in 1..Len(dice_matches(content, 1)) : IntOf(dice_matches(content, 1)[k].group1) > 100}
DiceSidesUnusual ==
    {k \in 1..Len(dice_matches(content, 1)) :
        IntOf(dice_matches(content, 1)[k].group2) \notin {2, 3, 4, 6, 8, 10, 12, 20, 100}}
DiceModifierHigh ==
    {k \in 1..Len(dice_matches(content, 1)) :
        /\ dice_matches(content, 1)[k].group4 # None
        /\ IntOf(dice_matches(content, 1)[k].group4) > 50}

\* C18: the Dice-Notation Checker returns, per occurrence, one
\* DICE_COUNT_HIGH warning iff count > 100, one DICE_SIDES_UNUSUAL info iff
\* sides is not canonical, one DICE_MODIFIER_HIGH warning iff the magnitude
\* of the modifier is > 50 whatever its sign, and nothing else
C18_DiceDiagnostics ==
    Checked("DiceValidator") =>
        /\ Cardinality(WithCode(DICE_COUNT_HIGH)) = Cardinality(DiceCountHigh)
        /\ Cardinality(WithCode(DICE_SIDES_UNUSUAL)) = Cardinality(DiceSidesUnusual)
        /\ Cardinality(WithCode(DICE_MODIFIER_HIGH)) = Cardinality(DiceModifierHigh)
        /\ Len(line_results) = Cardinality(DiceCountHigh) + Cardinality(DiceSidesUnusual)
                                  + Cardinality(DiceModifierHigh)
        /\ \A k \in 1..Len(line_results) :
              line_results[k].level
                 = (IF line_results[k].code = DICE_SIDES_UNUSUAL THEN INFO ELSE WARNING)

\* 101D7-51 gives the three diagnostics
C18_Witness ==
    /\ Checked("DiceValidator")
    /\ content = LineOf(<<<<"1", "0", "1", "D", "7", "-", "5", "1">>>>)
    /\ [k \in 1..Len(line_results) |-> line_results[k].code]
          = <<DICE_COUNT_HIGH, DICE_SIDES_UNUSUAL, DICE_MODIFIER_HIGH>>

\* the number of hyphen-separated numeric segments a line starts with
NumericSegments(line) ==
    IF DigitRun(line, 1) = 0 THEN 0
    ELSE PathGroups(SubSeq(line, 1, NumberPathLen(line, 1)))

\* the (code, level) pairs the heading checker is to return for a line
HeadingExpected(text) ==
    LET line == Strip(text)
        htext == Strip(SubSeq(line, LeadCount(line, {"#"}) + 1, Len(line)))
    IN  IF StartsWith(line, <<"#">>) /\ htext = <<>> THEN <<<<HEADING_EMPTY, CRITICAL>>>>
        ELSE IF StartsWith(line, <<"#">>) /\ Len(htext) > 100
        THEN <<<<HEADING_TOO_LONG, WARNING>>>>
        ELSE IF ~StartsWith(line, <<"#">>) /\ NumericSegments(line) >= 4
        THEN <<<<HEADING_TOO_DEEP, INFO>>>>
        ELSE <<>>

\* C19: the Heading Checker returns at most one diagnostic: HEADING_EMPTY for
\* a hash heading without text, HEADING_TOO_LONG for one whose text has more
\* than 100 characters, HEADING_TOO_DEEP for a numbered heading of four or
\* more numeric segments, nothing otherwise
C19_HeadingDiagnostics ==
    Checked("HeadingValidator") =>
        [k \in 1..Len(line_results) |-> <<line_results[k].code, line_results[k].level>>]
            = HeadingExpected(content)


-----------------------------------------------------------------------------
(* convert on documents made of one table *)

MaxBodyRows == 2       \* body lines of a table

\* header lines of two and three columns, with and without the outer pipes
TableHeaders ==
    {<<"|", "a", "|", "b", "|">>, <<"a", "|", "b">>, <<"|", "a", "|", " ", "b", " ", "|", "c", "|">>}

TableSeparator == <<"|", "-", "-", "-", "|", "-", "-", "-", "|">>

\* body lines of two columns (one holding a dice notation, one without the
\* outer pipes) and of three columns (one with an empty, one with a blank
\* middle cell)
TableRows ==
    {<<"|", "a", "|", "b", "|">>,
     <<"|", "1", "d", "6", "|", "b", "|">>,
     <<"a", "|", "b">>,
     <<"|", "a", "|", "b", "|", "c", "|">>,
     <<"|", "a", "|", "|", "c", "|">>,
     <<"|", "a", "|", " ", "|", "c", "|">>}

\* the cells of a line between its first and its last non-empty cell
Columns(line) ==
    LET parts == Split(line, <<"|">>)
        stripped == [i \in 1..Len(parts) |-> Strip(parts[i])]
        filled == {i \in 1..Len(stripped) : stripped[i] # <<>>}
    IN  IF filled = {} THEN <<>>
        ELSE SubSeq(stripped, CHOOSE i \in filled : \A j \in filled : i <= j,
                              CHOOSE i \in filled : \A j \in filled : j <= i)

TableDocs ==
    {Join(<<h, TableSeparator>> \o rows, <<NL>>) :
        h \in TableHeaders,
        rows \in {rs \in SeqsUpTo(TableRows, MaxBodyRows) :
                     \A k \in 1..Len(rs) : Len(Columns(rs[k])) \in {2, 3}}}

InitTables ==
    /\ ReportUnused
    /\ EngineUnused
    /\ PipelineUnused
    /\ CocUnused
    /\ CallerUnused
    /\ content \in TableDocs
    /\ pc = "read"

SpecTables == InitTables /\ [][NextPipeline]_vars

-----------------------------------------------------------------------------
(* Claim on the table renderer *)

\* a block made of a header line, a separator line and body lines that have
\* as many columns as the header
TableShaped(ls) ==
    /\ Len(ls) >= 2
    /\ Contains(ls[1], <<"|">>) /\ ~Contains(ls[1], <<"-", "-", "-">>)
    /\ Contains(ls[2], <<"-", "-", "-">>)
    /\ \A k \in 3..Len(ls) :
          /\ Contains(ls[k], <<"|">>) /\ ~Contains(ls[k], <<"-", "-", "-">>)
          /\ Len(Columns(ls[k])) = Len(Columns(ls[1]))

\* the cells the row of a line is to have
RowOf(line) == [m \in 1..Len(Columns(line)) |-> process_coc_elements(Columns(line)[m])]

\* C20: a table block of a header line of c columns, a separator line and k
\* body lines of c columns is rendered as one header row of c cells and k
\* body rows of c cells, in source order
C20_TableRows ==
    pc = "rendered" =>
        \A i \in 1..Len(paragraphs) :
            LET ls == LinesOf(paragraphs[i])
            IN  TableShaped(ls)
                => /\ rendered[i].tag = "table"
                   /\ rendered[i].thead = <<RowOf(ls[1])>>
                   /\ rendered[i].tbody = [k \in 1..(Len(ls) - 2) |-> RowOf(ls[k + 2])]

-----------------------------------------------------------------------------
(* Claim on the table of contents *)

HeadingBlocks == {i \in 1..Len(paragraphs) : kinds[i] \in {"hash_heading", "numbered_heading"}}

-----------------------------------------------------------------------------
(* convert on documents made of one chunk: a header line, a separator line  *)
(* that begins with ---, body lines                                         *)

\* two header lines, two separator lines, one or two body lines out of three
DashTableDocs ==
    LET headers == {<<"a", "|", "b">>, <<"|", "a", "|", "b", "|">>}
        separators == {<<"-", "-", "-", "|", "-", "-", "-">>,
                       <<"-", "-", "-", "-", "-", "-", "|", "-", "-", "-", "-">>}
        body == {<<"1", "|", "2">>, <<"|", "1", "|", "2", "|">>,
                 <<"1", "d", "6", " ", "|", " ", "b">>}
    IN  {Join(<<h, s>> \o rows, <<NL>>) :
            h \in headers, s \in separators,
            rows \in (SeqsUpTo(body, MaxBodyRows) \ {<<>>})}

InitDashTables ==
    /\ ReportUnused
    /\ EngineUnused
    /\ PipelineUnused
    /\ CocUnused
    /\ CallerUnused
    /\ content \in DashTableDocs
    /\ pc = "read"

SpecDashTables == InitDashTables /\ [][NextPipeline]_vars

\* C21: a chunk of a header line, a separator line that begins with --- and
\* body lines is rendered as one table, with the cells of the first line as
\* header cells and the lines after the separator as body rows; no paragraph
\* and no horizontal rule is rendered for it
C21_ChunkIsOneTable ==
    pc = "rendered" =>
        LET ls == LinesOf(content)
        IN  /\ Len(rendered) = 1
            /\ rendered[1].tag = "table"
            /\ rendered[1].thead = <<RowOf(ls[1])>>
            /\ rendered[1].tbody = [k \in 1..(Len(ls) - 2) |-> RowOf(ls[k + 2])]
            /\ \A i \in 1..Len(rendered) : rendered[i].tag \notin {"paragraph", "p", "section_divider"}

-----------------------------------------------------------------------------
(* convert on documents made of the lines of an NPC status block *)

MaxNpcLines == 3

\* an attribute line as scenarios write it, one with the backslashes the name
\* pattern asks for, a skills line, an equipment line, two attack lines, a
\* line of none of these
NpcLines ==
    {<<"a", " ", "(", "H", "P", "1", ")">>,
     <<"a", Backslash, "(", "H", "P", ")", "b", Backslash, "c">>,
     <<"b", " ">> \o SkillsLabel \o <<" ", SkillOpen, "x", SkillClose>>,
     EquipmentLabel \o <<"<">>,
     <<"1", "d", "6">>,
     <<"U722A">>,
     <<"&">>}

NpcDocs == {Join(ls, <<NL>>) : ls \in (SeqsUpTo(NpcLines, MaxNpcLines) \ {<<>>})}

InitNpc ==
    /\ ReportUnused
    /\ EngineUnused
    /\ PipelineUnused
    /\ CocUnused
    /\ CallerUnused
    /\ content \in NpcDocs
    /\ pc = "read"

SpecNpc == InitNpc /\ [][NextPipeline]_vars

-----------------------------------------------------------------------------
(* Claim on the NPC status block *)

\* the non-empty contiguous pieces of a line
Pieces(line) == {SubSeq(line, a, b) : a \in 1..Len(line), b \in 1..Len(line)} \ {<<>>}

\* a region carries a line when its body is the markup of a piece of the line
Carries(region, line) == \E piece \in Pieces(line) : region.body = process_coc_elements(piece)

\* C25: in the element rendered for an NPC status block, every non-blank line
\* of the block has at least one region that carries its content
C25_EveryLineRendered ==
    pc = "rendered" =>
        \A i \in 1..Len(paragraphs) :
            kinds[i] = "npc_status"
            => \A l \in 1..Len(StrippedLines(paragraphs[i])) :
                  LET line == StrippedLines(paragraphs[i])[l]
                  IN  line # <<>>
                      => \E k \in 1..Len(rendered[i].parts) : Carries(rendered[i].parts[k], line)

-----------------------------------------------------------------------------
(* convert on documents made of one block of each kind, holding a reserved  *)
(* character in each place that carries prose                               *)

Reserved == {"&", "<", ">", "\"", "'"}

BlockDocs ==
    LET forms(r) ==
            {<<"a", r>>,
             <<QuoteOpen, r, QuoteClose>>,
             <<r, QuoteOpen, "a", QuoteClose>>,
             <<"#", " ", r>>,
             <<"1", ".", " ", r>>,
             <<r, "|", "a", NL, "|", "-", "-", "-", "|", NL, "b", "|", r>>,
             <<BulletMarker, r, NL, BulletMarker, "a", NL, r>>,
             <<DefinitionMarker, r, ":", r, NL, DefinitionMarker, "a", WideColon, r, NL, r>>,
             <<"a", "(", "H", "P", ")", r>>,
             <<r, Backslash, "(", "H", "P", ")", r, Backslash, NL>> \o SkillsLabel
                 \o <<r, NL>> \o EquipmentLabel \o <<r>>,
             <<"(", "H", "P", ")", NL, "1", "d", "6", r, NL, r>>}
    IN  UNION {forms(r) : r \in Reserved}

InitBlocks ==
    /\ ReportUnused
    /\ EngineUnused
    /\ PipelineUnused
    /\ CocUnused
    /\ CallerUnused
    /\ content \in BlockDocs
    /\ pc = "read"

SpecBlocks == InitBlocks /\ [][NextPipeline]_vars

-----------------------------------------------------------------------------
(* Claim on the reserved characters *)

\* the bodies of an element: the texts it carries into the output
Bodies(e) ==
    CASE e.tag \in {"h", "p", "dialogue"} -> {e.body}
      [] e.tag = "table" ->
            UNION {{row[b] : b \in DOMAIN row} :
                      row \in {e.thead[a] : a \in DOMAIN e.thead}
                              \cup {e.tbody[a] : a \in DOMAIN e.tbody}}
      [] OTHER -> {e.parts[k].body : k \in DOMAIN e.parts}

\* a body without the span tags the renderer wrote into it
RECURSIVE Unmarked(_, _)
Unmarked(t, i) ==
    IF i > Len(t) THEN <<>>
    ELSE IF OccursAt(t, <<"<", "span class=">>, i) THEN Unmarked(t, i + 6)
    ELSE IF OccursAt(t, SpanClose, i) THEN Unmarked(t, i + 3)
    ELSE <<t[i]>> \o Unmarked(t, i + 1)

Entities == {EscapeChar(r) : r \in Reserved}

\* no reserved character in a text but as the first character of an entity
RawFree(t) ==
    \A i \in 1..Len(t) :
        /\ t[i] \notin {"<", ">", "\"", "'"}
        /\ t[i] = "&" => \E en \in Entities : OccursAt(t, en, i)

\* C28: in the element rendered for a block, no body holds a reserved
\* character (& < > " ') outside the span tags the renderer wrote, other than
\* as the start of an entity
C28_NoRawReserved ==
    pc = "rendered" =>
        \A i \in 1..Len(rendered) :
            \A body \in Bodies(rendered[i]) : RawFree(Unmarked(body, 1))

-----------------------------------------------------------------------------
(* The Vocabulary Checker on lines of one occurrence *)

\* names near an entry of the vocabulary and far from all: misspelt built-in
\* names, built-in names cut short (the second, third and sixth entry, each
\* nearer than the first entry is), names one and two characters away from a
\* name a config adds, a modifier alone, names that are entries
SuggestNames ==
    {<<"U76EE", "U3060", "U307E">>,
     <<"U76EE", "U3060", "U307E", "-", "5">>,
     <<"U76EE">>,
     <<"U805E", "U304D">>,
     <<"U56F3", "U66F8">>,
     <<"U96A0", "U308C">>,
     <<"x", "y", "z", "x", "y", "z">>,
     <<"a">>,
     <<"A", "x">>,
     <<"A", "x", "e", "s">>,
     <<"A", "x", "e", "s", "s">>,
     Axe,
     Sword \o <<"+", "1">>,
     <<"+", "5">>,
     <<"U76EE", "U661F">>}

InitSuggest ==
    /\ ReportUnused
    /\ PipelineUnused
    /\ CocUnused
    /\ CallerUnused
    /\ validators = <<"SkillValidator">>
    /\ content \in {LineOf(<<<<SkillOpen>> \o name \o <<SkillClose>>>>) : name \in SuggestNames}
    /\ config \in SkillConfigs
    /\ pc = "check"
    /\ line_number = 1
    /\ vidx = 1
    /\ line_results = <<>>
    /\ calls = <<>>

NextSuggest == skill_validator_validate

SpecSuggest == InitSuggest /\ [][NextSuggest]_vars

-----------------------------------------------------------------------------
(* Claim on the suggestion of the Vocabulary Checker *)

\* the edit distance of two texts: the least number of insertions, deletions
\* and substitutions of one character that turn a into b
EditDistance(a, b) ==
    LET d[i \in 0..Len(a), j \in 0..Len(b)] ==
            IF i = 0 THEN j
            ELSE IF j = 0 THEN i
            ELSE LET del == d[i - 1, j] + 1
                     ins == d[i, j - 1] + 1
                     sub == d[i - 1, j - 1] + (IF a[i] = b[j] THEN 0 ELSE 1)
                 IN  IF del <= ins /\ del <= sub THEN del
                     ELSE IF ins <= sub THEN ins ELSE sub
    IN  d[Len(a), Len(b)]

\* the entry of a vocabulary list nearest to a name among those within
\* distance 2, the earliest of the nearest; <<>> when none is within 2
Nearest(name, vocabulary) ==
    LET within == {k \in 1..Len(vocabulary) : EditDistance(name, vocabulary[k]) <= 2}
        least == {k \in within :
                     \A j \in within : EditDistance(name, vocabulary[k])
                                          <= EditDistance(name, vocabulary[j])}
    IN  IF within = {} THEN <<>>
        ELSE <<vocabulary[CHOOSE k \in least : \A j \in least : k <= j]>>

-----------------------------------------------------------------------------
(* ValidationEngine with the built-in validators: validate_document as one  *)
(* call                                                                     *)

\* the validators _initialize_validation_engine registers, in its order
BuiltinValidators == <<"SkillValidator", "HeadingValidator", "DiceValidator">>

\* validator.validate(line, line_number) of a built-in validator
validator_validate(name, text, ln, cfg) ==
    CASE name = "SkillValidator" -> skill_validate(text, ln, cfg)
      [] name = "HeadingValidator" -> heading_validate(text, ln, cfg)
      [] name = "DiceValidator" -> dice_validate(text, ln, cfg)

\* validate_line over built-in validators (none of them raises on a str)
validate_line(vs, text, ln, cfg) ==
    Concat([k \in 1..Len(vs) |-> validator_validate(vs[k], text, ln, cfg)])

\* a report object kept from the call before instead of a new one
kept_report == [results |-> results, summary |-> summary]

\* report = ValidationReport()
fresh_report == [results |-> NewResults, summary |-> NewSummary]

\* validate_document: the report it returns
validate_document_report(text, vs, cfg) ==
    LET ls == Split(text, <<NL>>)
        line_part == Concat([n \in 1..Len(ls) |-> validate_line(vs, ls[n], n, cfg)])
    IN  AddAll(AddAll(fresh_report, line_part), validate_document_structure(text))

-----------------------------------------------------------------------------
(* ScriptConverter (converter_refactored.py): construction, update_config,  *)
(* convert, validate_only                                                   *)

\* ScriptWeaverConfig.get_validation_config
get_validation_config(cfg) ==
    [strict_mode |-> cfg.strict_mode, custom_skills |-> cfg.custom_skills]

\* _initialize_validation_engine: the engine it leaves in self.validation_engine
initialize_validation_engine(cfg) ==
    [present |-> TRUE, config |-> get_validation_config(cfg), validators |-> BuiltinValidators]

\* ScriptConverter.__init__
ScriptConverter(cfg) ==
    [config |-> cfg,
     validation_engine |-> IF cfg.enable_validation THEN initialize_validation_engine(cfg)
                           ELSE NoEngine]

\* ScriptWeaverConfig.create_strict_mode
create_strict_mode == [create_default EXCEPT !.strict_mode = TRUE]

\* create_converter(enable_validation)
create_converter(enable_validation) ==
    ScriptConverter([create_default EXCEPT !.enable_validation = enable_validation])

\* create_strict_converter()
create_strict_converter == ScriptConverter(create_strict_mode)

\* update_config: the keys that rebuild the engine, without custom_skills
validation_keys_short ==
    {"enable_validation", "strict_mode", "trpg_system", "warning_threshold", "auto_fix",
     "beginner_mode"}

\* update_config: validation_keys
validation_keys ==
    {"enable_validation", "strict_mode", "trpg_system", "custom_skills", "warning_threshold",
     "auto_fix", "beginner_mode"}

\* the converters of the runs: the factory functions, and ScriptConverter on
\* a config with validation and strict mode on
Converters ==
    {create_converter(TRUE), create_converter(FALSE), create_strict_converter,
     ScriptConverter([create_strict_mode EXCEPT !.enable_validation = TRUE])}

\* the keyword arguments of the update_config calls: one validation setting,
\* two at once, a setting that is none of validation, a name that is no
\* attribute of the config
Kwargs ==
    {[enable_validation |-> b] : b \in BOOLEAN}
    \cup {[strict_mode |-> b] : b \in BOOLEAN}
    \cup {[custom_skills |-> c] : c \in {<<>>, <<Axe>>}}
    \cup {[enable_validation |-> TRUE, strict_mode |-> TRUE]}
    \cup {[include_toc |-> FALSE], [no_such_setting |-> TRUE]}

\* documents: one with an empty heading (a critical diagnostic), one with an
\* unknown skill and a dice roll, one without diagnostics
ConverterDocs ==
    {<<"#">>,
     <<"#", " ", "a", NL, SkillOpen, "x", SkillClose, "1", "d", "7">>,
     <<"#", " ", "a", NL, NL, "b">>}

InitConverter ==
    /\ ReportUnused
    /\ EngineUnused
    /\ PipelineUnused
    /\ CocUnused
    /\ content \in ConverterDocs
    /\ pc = "converter"
    /\ converter \in Converters
    /\ outcome = NoOutcome
    /\ reports = <<>>

\* update_config(**kwargs)
update_config(kwargs) ==
    /\ pc = "converter"
    /\ LET cfg == [key \in DOMAIN converter.config |->
                      IF key \in DOMAIN kwargs THEN kwargs[key] ELSE converter.config[key]]
       IN  converter' =
              [config |-> cfg,
               validation_engine |->
                   IF DOMAIN kwargs \cap validation_keys # {}
                   THEN IF cfg.enable_validation THEN initialize_validation_engine(cfg)
                        ELSE NoEngine
                   ELSE converter.validation_engine]
    /\ outcome' = [op |-> "update_config", raised |-> "none", written |-> FALSE]
    /\ UNCHANGED <<reportVars, engineVars, pipelineVars, cocVars, reports>>

\* convert(input_file, include_validation_report) on a supported file that
\* holds content
convert(include_validation_report) ==
    /\ pc = "converter"
    /\ LET engine == converter.validation_engine
           validated == engine.present /\ include_validation_report
           validation_report == IF validated
                                THEN validate_document_report(content, engine.validators,
                                                              engine.config)
                                ELSE fresh_report
           refused == /\ validated
                      /\ converter.config.strict_mode
                      /\ validation_report.summary[CRITICAL] > 0
       IN  /\ IF validated
              THEN results' = validation_report.results /\ summary' = validation_report.summary
              ELSE UNCHANGED reportVars
           /\ IF refused
              THEN UNCHANGED pipelineVars
              ELSE LET blocks == split_paragraphs(content)
                       registry == collect_headings(blocks)
                   IN  /\ paragraphs' = blocks
                       /\ headings' = registry
                       /\ toc' = generate_toc(registry)
                       /\ kinds' = [i \in 1..Len(blocks) |-> classify(blocks[i])]
                       /\ rendered' = [i \in 1..Len(blocks) |-> convert_block(blocks[i], registry)]
           /\ outcome' = [op |-> "convert",
                          raised |-> IF refused THEN "ValueError" ELSE "none",
                          written |-> ~refused]
    /\ UNCHANGED <<engineVars, cocVars, converter, reports>>

\* validate_only(input_file) on a supported file that holds content
validate_only ==
    /\ pc = "converter"
    /\ LET engine == converter.validation_engine
       IN  IF ~engine.present
           THEN /\ outcome' = [op |-> "validate_only", raised |-> "RuntimeError",
                               written |-> FALSE]
                /\ UNCHANGED reportVars
           ELSE LET validation_report ==
                        validate_document_report(content, engine.validators, engine.config)
                IN  /\ results' = validation_report.results
                    /\ summary' = validation_report.summary
                    /\ outcome' = [op |-> "validate_only", raised |-> "none",
                                   written |-> FALSE]
    /\ UNCHANGED <<engineVars, pipelineVars, cocVars, converter, reports>>

NextConverter ==
    \/ \E kwargs \in Kwargs : update_config(kwargs)
    \/ \E include_validation_report \in BOOLEAN : convert(include_validation_report)
    \/ validate_only

SpecConverter == InitConverter /\ [][NextConverter]_vars

-----------------------------------------------------------------------------
(* Claims on the ScriptConverter *)

\* validation of the document yields a critical diagnostic
YieldsCritical ==
    validate_document_report(content, BuiltinValidators,
                             get_validation_config(converter.config)).summary[CRITICAL] > 0

\* C22: a convert call on a converter whose config has strict_mode on, for a
\* document whose validation yields a critical diagnostic, raises and writes
\* no output file, however the converter was built and whatever
\* include_validation_report was
C22_StrictRefuses ==
    (outcome.op = "convert" /\ converter.config.strict_mode /\ YieldsCritical)
        => (outcome.raised = "ValueError" /\ ~outcome.written)

\* C30: validation_engine is present iff config.enable_validation; when
\* present it holds the three built-in validators once each in the order
\* Skill, Heading, Dice and the validation config of the current config; a
\* validate_only call raised RuntimeError iff the engine is absent
C30_EngineFollowsConfig ==
    pc = "converter" =>
        LET engine == converter.validation_engine
        IN  /\ engine.present <=> converter.config.enable_validation
            /\ engine.present
               => /\ engine.validators = <<"SkillValidator", "HeadingValidator", "DiceValidator">>
                  /\ engine.config.strict_mode = converter.config.strict_mode
                  /\ engine.config.custom_skills = converter.config.custom_skills
            /\ outcome.op = "validate_only"
               => (outcome.raised = "RuntimeError" <=> ~engine.present)

\* after update_config calls that turned validation on and changed the
\* custom skills and strict mode, validate_only returned a report
C30_Witness ==
    /\ pc = "converter"
    /\ converter.validation_engine.present
    /\ converter.validation_engine.config = [strict_mode |-> TRUE, custom_skills |-> <<Axe>>]
    /\ ~converter.config.include_toc
    /\ outcome.op = "validate_only"
    /\ outcome.raised = "none"
    /\ Len(results) > 0

-----------------------------------------------------------------------------
(* validate_document called again and again on one engine *)

MaxRuns == 3           \* validate_document calls on one engine

\* the engines of the runs: the converter's three validators, one validator,
\* two in another order, one registered twice
RepeatValidators ==
    {BuiltinValidators, <<"SkillValidator">>, <<"DiceValidator", "HeadingValidator">>,
     <<"SkillValidator", "SkillValidator">>}

RepeatConfigs ==
    {[strict_mode |-> s, custom_skills |-> c] : s \in BOOLEAN, c \in {<<>>, <<Axe>>}}

\* documents with diagnostics of every validator and of the document phase
RepeatDocs ==
    {<<"#">>,
     <<"a">>,
     <<"#", "#", " ", "a", NL, SkillOpen, "x", SkillClose>>,
     <<SkillOpen, "A", "x", "e", SkillClose, " ", "1", "d", "7">>,
     <<"#", " ", "a", NL, "#", "#", "#", " ", "b">>,
     <<"1", "d", "6", NL, "#">>}

InitRepeat ==
    /\ ReportUnused
    /\ content \in RepeatDocs
    /\ config \in RepeatConfigs
    /\ validators \in RepeatValidators
    /\ pc = "idle"
    /\ line_number = 0 /\ vidx = 0 /\ line_results = <<>> /\ calls = <<>>
    /\ PipelineUnused
    /\ CocUnused
    /\ CallerUnused

\* validate_document(content), from the call to the return of the report;
\* reports keeps what the caller got and the config it saw afterwards
validate_document_call ==
    /\ pc = "idle"
    /\ Len(reports) < MaxRuns
    /\ LET report == validate_document_report(content, validators, config)
       IN  /\ results' = report.results
           /\ summary' = report.summary
           /\ reports' = Append(reports, [results |-> report.results,
                                          summary |-> report.summary,
                                          config |-> config])
    /\ UNCHANGED <<engineVars, pipelineVars, cocVars, converter, outcome>>

NextRepeat == validate_document_call

SpecRepeat == InitRepeat /\ [][NextRepeat]_vars

-----------------------------------------------------------------------------
(* The rendering pipeline and validate_document over one document text,    *)
(* their steps interleaved. The pipeline keeps its position in pc; the     *)
(* validation run keeps it in line_number: 0 before the call, 1..n the     *)
(* line to validate next, n + 1 before the document phase, n + 2 returned  *)

\* documents with headings, skills, dice, a table and blank lines
InterleaveDocs ==
    {<<"#">>,
     <<"#", " ", "a", NL, NL, "#", "#", "#", " ", "b">>,
     <<"#", "#", " ", "a", NL, SkillOpen, "x", SkillClose>>,
     <<SkillOpen, "A", "x", "e", SkillClose, " ", "1", "d", "7", NL, NL, NL, "1", ".", "a">>,
     <<"a", "|", "b", NL, "-", "-", "-", NL, QuoteOpen, "1", "d", "6", QuoteClose>>,
     <<" ", "a", " ", NL, "#", " ", "a", NL, "#", " ", "a">>}

InitInterleave ==
    /\ ReportUnused
    /\ content \in InterleaveDocs
    /\ config \in RepeatConfigs
    /\ validators = BuiltinValidators
    /\ pc = "read"
    /\ line_number = 0 /\ vidx = 0 /\ line_results = <<>> /\ calls = <<>>
    /\ PipelineUnused
    /\ CocUnused
    /\ CallerUnused

\* validate_document: report = ValidationReport(), lines = content.split('\n')
validate_document_begins ==
    /\ line_number = 0
    /\ results' = fresh_report.results
    /\ summary' = fresh_report.summary
    /\ line_number' = 1
    /\ UNCHANGED <<config, content, validators, pc, vidx, line_results, calls>>
    /\ UNCHANGED <<pipelineVars, cocVars, callerVars>>

\* validate_document: one turn of the loop over the lines
validate_document_line ==
    /\ line_number \in 1..Len(lines)
    /\ LET rep == AddAll([results |-> results, summary |-> summary],
                         validate_line(validators, lines[line_number], line_number, config))
       IN  /\ results' = rep.results
           /\ summary' = rep.summary
    /\ line_number' = line_number + 1
    /\ UNCHANGED <<config, content, validators, pc, vidx, line_results, calls>>
    /\ UNCHANGED <<pipelineVars, cocVars, callerVars>>

\* validate_document: the document phase, and the return
validate_document_ends ==
    /\ line_number = Len(lines) + 1
    /\ LET rep == AddAll([results |-> results, summary |-> summary],
                         validate_document_structure(content))
       IN  /\ results' = rep.results
           /\ summary' = rep.summary
    /\ line_number' = line_number + 1
    /\ UNCHANGED <<config, content, validators, pc, vidx, line_results, calls>>
    /\ UNCHANGED <<pipelineVars, cocVars, callerVars>>

NextInterleave ==
    \/ convert_split
    \/ convert_collect
    \/ process_paragraphs
    \/ validate_document_begins
    \/ validate_document_line
    \/ validate_document_ends

SpecInterleave == InitInterleave /\ [][NextInterleave]_vars

\* validate_document has returned
Validated == line_number = Len(Split(content, <<NL>>)) + 2

\* C24: however the steps of the pipeline and of validate_document are
\* interleaved over one document text, the block list, the heading list, the
\* rendered blocks and the validation report are those of each run alone
C24_InterleavingIsInvisible ==
    LET blocks == split_paragraphs(content)
        registry == collect_headings(blocks)
        alone == validate_document_report(content, validators, config)
    IN  /\ pc \in {"split", "collected", "rendered"} => paragraphs = blocks
        /\ pc \in {"collected", "rendered"} => headings = registry
        /\ pc = "rendered"
           => rendered = [i \in 1..Len(blocks) |-> convert_block(blocks[i], registry)]
        /\ Validated => results = alone.results /\ summary = alone.summary

\* both runs are over, the pipeline with a heading and two or more blocks, the
\* validation with two or more diagnostics
C24_Witness ==
    /\ pc = "rendered"
    /\ Validated
    /\ Len(paragraphs) >= 2
    /\ Len(headings) >= 1
    /\ Len(results) >= 2

=============================================================================
